---- MODULE Spec2Model ----
(***************************************************************************)
(* Cross-exchange arbitrage engine: the arbitrage calculators of the three *)
(* providers and the list RealDataService builds from them, the            *)
(* CircuitBreaker of utils/unified_error_handler.py, the per-exchange      *)
(* breaker and retry loop of RealExchangeProvider, the read-through       *)
(* caches (async_cached, RealExchangeProvider.get_price_data), the cache   *)
(* of RealDataService, the timed fan-out of get_price_data with its        *)
(* synthetic fallback, RetryManager.retry_with_backoff, the price         *)
(* adapters of the exchanges and the aggregators, the rate-limit gate, the *)
(* exception handling of the RealDataService getters, repeated calls of    *)
(* get_arbitrage_opportunities, the semaphore of get_all_tickers,          *)
(* get_network_compatibility, the CircuitBreaker under threads, passes of  *)
(* get_price_data over a source with unusable payloads,                    *)
(* OptimizedAsyncCache with several keys, and the HTTP session of the      *)
(* providers.                                                              *)
(*                                                                         *)
(* Each part has its own specification (SpecCalc, SpecThr and SpecTop,     *)
(* SpecCB, SpecREP and SpecREPLive, SpecCache, SpecSvc, SpecFan, SpecRt,   *)
(* SpecAd, SpecRl, SpecSe, SpecId, SpecSem, SpecNet, SpecTh, SpecUp,       *)
(* SpecOc, SpecSs); a specification leaves the variables of the other      *)
(* parts at their initial values.                                          *)
(***************************************************************************)
EXTENDS Integers, Sequences, FiniteSets, TLC

VARIABLES
    \* ---- calculators (providers/*.py, real_data_service.py)
    min_profit_threshold,  \* TradingConfig.min_profit_threshold, in tenths of a percent
    price_data_synthetic,  \* get_price_data gave RealExchangeProvider generated quotes (history)
    price_data,      \* the QuoteSet of one symbol, in the order the provider holds it
    ccxt_available,  \* RealDataService.ccxt_available
    real_opps,       \* result of RealExchangeProvider.calculate_arbitrage_opportunities
    ccxt_opps,       \* result of EnhancedCCXTProvider.calculate_arbitrage_opportunities
    multi_opps,      \* result of MultiSourceCryptoProvider.calculate_arbitrage_opportunities
    svc_opps,        \* result of RealDataService.get_real_arbitrage_opportunities
    calc_pc,         \* which of the calls above have returned
    \* ---- CircuitBreaker (utils/unified_error_handler.py)
    cb_state,           \* CircuitBreaker.state
    failure_count,      \* CircuitBreaker.failure_count
    last_failure_time,  \* CircuitBreaker.last_failure_time
    cb_now,             \* time.time()
    cb_active,          \* the callers that use the breaker
    cb_pc,              \* per caller: "idle", or "in_func" while func runs
    cb_result,          \* per caller: how its last call ended
    cb_run,             \* calls that raised since the last success (history)
    cb_calls,           \* calls made so far (history)
    cb_probe,           \* the last HALF_OPEN probe: admitted, closed, reopened (history)
    \* ---- RealExchangeProvider: breaker and retry loop of one exchange
    rq_exchange,           \* the exchange_id followed
    breaker_failures,      \* circuit_breaker[exchange_id]['failures']
    breaker_last_failure,  \* circuit_breaker[exchange_id]['last_failure'], in minutes
    exchange_status,       \* exchange_status[exchange_id]
    rep_now,               \* datetime.now(), in minutes
    rq_pc,                 \* _make_request_with_retry: "idle", or "send" inside the loops
    rq_attempt,            \* attempt of the outer loop, 0 .. max_retries - 1
    rq_url,                \* index into urls_to_try of the inner loop, 1 ..
    rq_result,             \* how the last call ended: "data", "skipped", "failed"
    rq_failures0,          \* failures when the loops of the call began (history)
    rq_recovering,         \* the call began by resetting an open breaker (history)
    rq_saw_429,            \* a 429 was answered in this call (history)
    rq_after_429,          \* a request was sent after a 429 in this call (history)
    rq_saw_block,          \* a 403 or 451 was answered in this call (history)
    rq_after_block,        \* a request was sent after a 403 or 451 in this call (history)
    \* ---- read-through caches: async_cached and RealExchangeProvider.get_price_data
    cache_now,    \* time.time(), in minutes
    ac_entry,     \* _global_cache._cache under cache_key: << >> or <<CacheEntry>>
    ac_pc,        \* per caller of the decorated coroutine: "idle", "fetch", "done", "raised"
    ac_got,       \* per caller: the number of the fetch whose result it has (0: none)
    ac_fetches,   \* calls of the wrapped coroutine so far (history)
    gp_cache,     \* RealExchangeProvider.cache under 'price_data_<symbol>': << >> or <<entry>>
    gp_pc,        \* per caller of get_price_data: "idle", "fanout", "done"
    gp_got,       \* per caller: the number of the fan-out whose result it has (0: none)
    gp_fanouts,   \* fan-outs (asyncio.gather over the exchanges) so far (history)
    \* ---- RealDataService._cache, one key
    svc_now,         \* datetime.now(), in seconds
    svc_cache,       \* _cache under the key: << >> or <<[data, timestamp]>>
    svc_pc,          \* the caller of a cached getter: "idle", "compute"
    svc_got,         \* the time at which the data returned last was computed
    svc_served_age,  \* age of the entry when the last return came from _cache (history)
    \* ---- one fan-out of RealExchangeProvider.get_price_data, with its timing
    fan_failures,    \* circuit_breaker[e]['failures'] per exchange
    fan_pc,          \* "start", "request", "process", "done"
    fan_cur,         \* position in FanOrder of the exchange task being run
    fan_attempt,     \* attempt of the task being run: 0..max_retries-1
    fan_url,         \* position in urls_to_try of the task being run
    fan_t,           \* seconds since the gather began, for the task being run
    fan_reqs,        \* per exchange: requests sent in this fan-out (history)
    fan_timeouts,    \* per exchange: requests that timed out before any other response (history)
    fan_result,      \* per exchange: what its task gave the gather
    fan_returned,    \* the QuoteSet get_price_data returned: a set of quotes
    fan_cache,       \* cache['price_data_<symbol>']['data']: << >> or <<QuoteSet>>
    fan_from_cache,  \* the QuoteSet returned last came from the cache
    \* ---- RetryManager.retry_with_backoff around one function
    rt_max_attempts,     \* the decorator's max_attempts
    rt_exponential,      \* the decorator's exponential_backoff
    rt_jitter,           \* the decorator's jitter
    rt_pc,               \* wrapper: "call", "sleep", "done"
    rt_attempt,          \* the loop variable attempt
    rt_last_exception,   \* last_exception: 0 for None, else the number of the call that raised it
    rt_slept,            \* current_delay of the last time.sleep, in hundredths of a second
    rt_outcome,          \* how wrapper ended: "none", "returned", "raised", "propagated"
    rt_value,            \* the number of the call whose result or exception wrapper gave back
    rt_calls,            \* calls of original_func (history)
    rt_failed,           \* calls of original_func that raised one of exceptions (history)
    rt_sleeps,           \* calls of time.sleep (history)
    \* ---- one price adapter and the filter of its get_price_data
    ad_provider,     \* "binance", "okx", "kucoin", "gate", "bybit", or "multi" for the aggregators
    ad_ticker,       \* the exchange's ticker as answered: last, bid and ask fields
    ad_assets,       \* per aggregator: the price field as answered
    ad_pc,           \* "idle", "fetch", "process", "calc", "done"
    ad_result,       \* what each adapter task gave: << >> (None or an exception) or <<quote>>
    ad_price_data,   \* the real quotes get_price_data kept
    ad_raised,       \* the calculator raised ZeroDivisionError
    \* ---- the rate-limit gate inside one _make_request_with_retry call
    rl_exchange,        \* exchange_id
    rl_now,             \* time.time(), in hundredths of a second
    last_request_time,  \* last_request_time[exchange_id]; 0 when absent
    rl_pc,              \* "idle", "gate" (before _check_rate_limit), "wait" (in session.get), "done"
    rl_attempt,         \* the loop variable attempt
    rl_url,             \* position in urls_to_try
    rl_prev_sent,       \* when the request before the last was sent (history)
    rl_last_sent,       \* when the last request was sent (history)
    \* ---- the cached getters of RealDataService and what their providers raise
    se_getter,       \* "arbitrage" (get_real_arbitrage_opportunities) or "market" (get_real_market_data)
    se_has_ccxt,     \* self.ccxt_provider is set
    se_cached,       \* length of the list _get_from_cache gives; 0 for nothing (or an empty list)
    se_pc,           \* "idle", "cache", "real", "multi", "ccxt", "done"
    se_symbol,       \* position in SYMBOLS of the loop over the symbols
    se_opps,         \* len(opportunities) so far
    se_returned,     \* length of the list returned; NoTime when nothing was returned
    se_propagated,   \* an exception left the getter
    se_raised,       \* a provider raised during the call (history)
    se_logged,       \* logger.error or logger.warning was called with an exception
    \* ---- repeated calls of get_arbitrage_opportunities for one symbol
    id_now,         \* time.time(), in minutes
    id_cache,       \* cache['price_data_<symbol>']: << >> or <<[data, timestamp]>>
    id_calls,       \* calls made so far (history)
    id_prev_opps,   \* what the call before the last returned
    id_last_opps,   \* what the last call returned
    id_prev_data,   \* the QuoteSet the call before the last computed from (history)
    id_prev_stamp,  \* the timestamp of its cache entry (history)
    id_last_time,   \* when the last call was made (history)
    \* ---- one call of EnhancedCCXTProvider.get_all_tickers
    sem_tasks,      \* len(limited_exchanges): the tasks gathered
    sem_value,      \* semaphore._value
    sem_task,       \* per task: "absent", "waiting", "inflight", "ticker", "none", "raised", "cancelled"
    sem_pc,         \* "idle", "gather", "done"
    sem_returned,   \* length of the list returned; NoTime before the return
    \* ---- one call of RealExchangeInfoProvider.get_network_compatibility
    net_networks1,   \* networks1: the NetworkInfo list of the exchange withdrawn from
    net_networks2,   \* networks2: the NetworkInfo list of the exchange deposited to
    net_pc,          \* "idle", "call", "done"
    net_compatible,  \* the names returned (list(set): in no particular order)
    \* ---- one CircuitBreaker called from several threads
    th_state,              \* state
    th_failure_count,      \* failure_count
    th_last_failure_time,  \* last_failure_time; NoTime for None
    th_now,                \* time.time()
    th_pc,                 \* per thread: "off", "idle", "in_func", "loaded"
    th_loaded,             \* per thread: the failure_count it read in `+= 1`
    th_failed,             \* failed calls completed since the last success
    th_calls,              \* calls begun
    \* ---- get_price_data passes over a source whose payloads are unusable
    up_exchange,       \* the source
    up_failures,       \* circuit_breakers[exchange]['failures']
    up_last_failure,   \* circuit_breakers[exchange]['last_failure']; NoTime for None
    up_passes,         \* passes made
    up_ticker,         \* the payload of the last request
    up_sent,           \* whether the last pass sent a request to the source
    \* ---- one OptimizedAsyncCache
    oc_cache,      \* _cache: the entries in insertion order, each with its key
    oc_now,        \* time.time()
    oc_evictions,  \* _stats['evictions']
    oc_ops,        \* operations made
    oc_op,         \* the last operation: its name and key
    oc_evicted,    \* the key the last _evict_lru removed; "none" before any
    \* ---- the HTTP session of one provider
    ss_provider,  \* "real": RealExchangeProvider, "multi": MultiSourceCryptoProvider
    ss_session,   \* self.session: "None", "open", or "closed" (a closed ClientSession)
    ss_depth,     \* `async with provider` blocks entered and not yet left
    ss_outcome,   \* the last session.get: "none", "sent", "no_session", "closed_session"
    ss_exited,    \* whether a block has been left
    ss_calls      \* operations made

calcVars == <<min_profit_threshold, price_data_synthetic, price_data, ccxt_available, real_opps, ccxt_opps, multi_opps, svc_opps, calc_pc>>

cbVars == <<cb_state, failure_count, last_failure_time, cb_now, cb_active, cb_pc,
            cb_result, cb_run, cb_calls, cb_probe>>

repVars == <<rq_exchange, breaker_failures, breaker_last_failure, exchange_status,
             rep_now, rq_pc, rq_attempt, rq_url, rq_result, rq_failures0,
             rq_recovering, rq_saw_429, rq_after_429,
                   rq_saw_block, rq_after_block>>

rtVars == <<rt_max_attempts, rt_exponential, rt_jitter, rt_pc, rt_attempt,
            rt_last_exception, rt_slept, rt_outcome, rt_value, rt_calls, rt_failed, rt_sleeps>>

fanVars == <<fan_failures, fan_pc, fan_cur, fan_attempt, fan_url, fan_t, fan_reqs,
             fan_timeouts, fan_result, fan_returned, fan_cache, fan_from_cache>>

svcVars == <<svc_now, svc_cache, svc_pc, svc_got, svc_served_age>>

cacheVars == <<cache_now, ac_entry, ac_pc, ac_got, ac_fetches,
               gp_cache, gp_pc, gp_got, gp_fanouts>>

adVars == <<ad_provider, ad_ticker, ad_assets, ad_pc, ad_result, ad_price_data, ad_raised>>

rlVars == <<rl_exchange, rl_now, last_request_time, rl_pc, rl_attempt, rl_url,
            rl_prev_sent, rl_last_sent>>

seVars == <<se_getter, se_has_ccxt, se_cached, se_pc, se_symbol, se_opps,
            se_returned, se_propagated, se_raised, se_logged>>

idVars == <<id_now, id_cache, id_calls, id_prev_opps, id_last_opps, id_prev_data,
            id_prev_stamp, id_last_time>>

semVars == <<sem_tasks, sem_value, sem_task, sem_pc, sem_returned>>

netVars == <<net_networks1, net_networks2, net_pc, net_compatible>>

thVars == <<th_state, th_failure_count, th_last_failure_time, th_now, th_pc, th_loaded,
           th_failed, th_calls>>

upVars == <<up_exchange, up_failures, up_last_failure, up_passes, up_ticker, up_sent>>

ocVars == <<oc_cache, oc_now, oc_evictions, oc_ops, oc_op, oc_evicted>>

ssVars == <<ss_provider, ss_session, ss_depth, ss_outcome, ss_exited, ss_calls>>

vars == <<calcVars, cbVars, repVars, cacheVars, svcVars, fanVars, rtVars, adVars, rlVars, seVars, idVars, semVars, netVars, thVars, upVars, ocVars, ssVars>>

\* what an action of one part leaves alone: the variables of the other parts
calcOthers == <<cbVars, repVars, cacheVars, svcVars, fanVars, rtVars, adVars, rlVars, seVars, idVars, semVars, netVars, thVars, upVars, ocVars, ssVars>>

cbOthers == <<calcVars, repVars, cacheVars, svcVars, fanVars, rtVars, adVars, rlVars, seVars, idVars, semVars, netVars, thVars, upVars, ocVars, ssVars>>

repOthers == <<calcVars, cbVars, cacheVars, svcVars, fanVars, rtVars, adVars, rlVars, seVars, idVars, semVars, netVars, thVars, upVars, ocVars, ssVars>>

cacheOthers == <<calcVars, cbVars, repVars, svcVars, fanVars, rtVars, adVars, rlVars, seVars, idVars, semVars, netVars, thVars, upVars, ocVars, ssVars>>

svcOthers == <<calcVars, cbVars, repVars, cacheVars, fanVars, rtVars, adVars, rlVars, seVars, idVars, semVars, netVars, thVars, upVars, ocVars, ssVars>>

fanOthers == <<calcVars, cbVars, repVars, cacheVars, svcVars, rtVars, adVars, rlVars, seVars, idVars, semVars, netVars, thVars, upVars, ocVars, ssVars>>

rtOthers == <<calcVars, cbVars, repVars, cacheVars, svcVars, fanVars, adVars, rlVars, seVars, idVars, semVars, netVars, thVars, upVars, ocVars, ssVars>>

adOthers == <<calcVars, cbVars, repVars, cacheVars, svcVars, fanVars, rtVars, rlVars, seVars, idVars, semVars, netVars, thVars, upVars, ocVars, ssVars>>

rlOthers == <<calcVars, cbVars, repVars, cacheVars, svcVars, fanVars, rtVars, adVars, seVars, idVars, semVars, netVars, thVars, upVars, ocVars, ssVars>>

seOthers == <<calcVars, cbVars, repVars, cacheVars, svcVars, fanVars, rtVars, adVars, rlVars, idVars, semVars, netVars, thVars, upVars, ocVars, ssVars>>

idOthers == <<calcVars, cbVars, repVars, cacheVars, svcVars, fanVars, rtVars, adVars, rlVars, seVars, semVars, netVars, thVars, upVars, ocVars, ssVars>>

semOthers == <<calcVars, cbVars, repVars, cacheVars, svcVars, fanVars, rtVars, adVars, rlVars, seVars, idVars, netVars, thVars, upVars, ocVars, ssVars>>

netOthers == <<calcVars, cbVars, repVars, cacheVars, svcVars, fanVars, rtVars, adVars, rlVars, seVars, idVars, semVars, thVars, upVars, ocVars, ssVars>>

thOthers == <<calcVars, cbVars, repVars, cacheVars, svcVars, fanVars, rtVars, adVars, rlVars, seVars, idVars, semVars, netVars, upVars, ocVars, ssVars>>

upOthers == <<calcVars, cbVars, repVars, cacheVars, svcVars, fanVars, rtVars, adVars, rlVars, seVars, idVars, semVars, netVars, thVars, ocVars, ssVars>>

ocOthers == <<calcVars, cbVars, repVars, cacheVars, svcVars, fanVars, rtVars, adVars, rlVars, seVars, idVars, semVars, netVars, thVars, upVars, ssVars>>

ssOthers == <<calcVars, cbVars, repVars, cacheVars, svcVars, fanVars, rtVars, adVars, rlVars, seVars, idVars, semVars, netVars, thVars, upVars, ocVars>>

None == "None"

\* None where a time is held (times are 0, 1, ...)
NoTime == 0 - 1

(***************************************************************************)
(* Bounds of the model.                                                    *)
(***************************************************************************)
MaxSources == 3

\* CircuitBreaker(failure_threshold, recovery_timeout): the constructor's
\* arguments, and how far the clock and the number of calls run
failure_threshold == 2

recovery_timeout == 2

MaxTime == 6

MaxCalls == 6

\* how far the provider's clock runs, in minutes
RepMaxTime == 7

\* the concurrent callers of one cache key, the ttl argument of
\* async_cached (in minutes) and how far the caches' clock runs
MaxCallers == 2

ttl == 1

CacheMaxTime == 2

\* the largest max_attempts given to retry_with_backoff
MaxAttempts == 3

\* how far the service's clock runs: whole days, and seconds into a day
SvcMaxDays == 1

SvcMaxSeconds == 60

SourceIds == 1..MaxSources

\* The quotes a source may answer with. Source A of the end-to-end scenarios
\* quotes 100/101, source B quotes 103/104 (scenario 1) or 99/100
\* (scenario 2). The fourth quote has ask < bid, which the KuCoin, Gate.io
\* and Bybit adapters pass on unswapped and _validate_price_data accepts
\* (ask >= 0.95 * bid); the fifth has no spread.
QuoteChoices ==
    { [bid |-> 100, ask |-> 101, price |-> 100],
      [bid |-> 103, ask |-> 104, price |-> 103],
      [bid |-> 99,  ask |-> 100, price |-> 100],
      [bid |-> 101, ask |-> 100, price |-> 101],
      [bid |-> 100, ask |-> 100, price |-> 100] }

(***************************************************************************)
(* RealExchangeProvider._validate_price_data: price, bid and ask are       *)
(* positive and ask is not below 95 % of bid.                              *)
(***************************************************************************)
_validate_price_data(data) ==
    /\ data.price > 0 /\ data.bid > 0 /\ data.ask > 0
    /\ ~(data.ask * 100 < data.bid * 95)

\* Sequences of quotes of distinct sources, of length 0..MaxSources.
Injective(f) == \A a, b \in DOMAIN f : f[a] = f[b] => a = b

QuoteSetsOf(choices) ==
    UNION { { [k \in 1..n |-> [exchange |-> src[k], bid |-> q[k].bid,
                               ask |-> q[k].ask, price |-> q[k].price]]
              : src \in { s \in [1..n -> SourceIds] : Injective(s) },
                q \in [1..n -> { c \in choices : _validate_price_data(c) }] }
            : n \in 0..MaxSources }

QuoteSets == QuoteSetsOf(QuoteChoices)

\* The quotes of the threshold cases: buying at the ask of the first and
\* selling at the bid of the others gives 0.1 %, 0.3 % and 0.6 %
\* (1000 -> 1001, 1003, 1006).
ThresholdQuoteChoices ==
    { [bid |-> 999,  ask |-> 1000, price |-> 1000],
      [bid |-> 1001, ask |-> 1002, price |-> 1001],
      [bid |-> 1003, ask |-> 1004, price |-> 1003],
      [bid |-> 1006, ask |-> 1007, price |-> 1006] }

\* TradingConfig.min_profit_threshold (app_config.py line 63), in tenths
\* of a percent: the default 0.1 and 0.5
MinProfitChoices == {1, 5}

(***************************************************************************)
(* profit_pct is kept exact as the fraction num/den (the code holds the    *)
(* float ((sell - buy) / buy) * 100).                                      *)
(***************************************************************************)
Pct(buy, sell) == [num |-> (sell - buy) * 100, den |-> buy]

\* a.profit_pct >= b.profit_pct, for positive denominators
PctGeq(a, b) == a.num * b.den >= b.num * a.den

\* mutant: the threshold itself passes
PctAboveTenths_geq(p, t) == p.num * 10 >= t * p.den

\* profit_pct > t / 10   (t = 1 is the 0.1 % of real_data_service.py)
PctAboveTenths(p, t) == p.num * 10 > t * p.den

(***************************************************************************)
(* list.sort(key = profit_pct, reverse = True): a stable sort, so equal    *)
(* keys keep the order they were appended in.                              *)
(***************************************************************************)
RECURSIVE InsertDesc(_, _)
InsertDesc(x, s) ==
    IF s = <<>> THEN <<x>>
    ELSE IF PctGeq(Head(s).profit_pct, x.profit_pct)
         THEN <<Head(s)>> \o InsertDesc(x, Tail(s))
         ELSE <<x>> \o s

RECURSIVE SortDesc(_)
SortDesc(s) ==
    IF s = <<>> THEN <<>>
    ELSE InsertDesc(s[Len(s)], SortDesc(SubSeq(s, 1, Len(s) - 1)))

\* the index pairs (i, j), i < j, in the order of the nested loops
IndexPairs(n) ==
    SelectSeq([k \in 1..(n * n) |-> <<((k - 1) \div n) + 1, ((k - 1) % n) + 1>>],
              LAMBDA p : p[1] < p[2])

RECURSIVE Flatten(_)
Flatten(ss) == IF ss = <<>> THEN <<>> ELSE Head(ss) \o Flatten(Tail(ss))

(***************************************************************************)
(* RealExchangeProvider.calculate_arbitrage_opportunities, lines 655-694:  *)
(* for i < j, buy_price = ask of exchanges[i], sell_price = bid of         *)
(* exchanges[j]; the forward branch appends when sell_price > buy_price,   *)
(* the "reverse check" appends, with the two prices exchanged, when        *)
(* buy_price > sell_price.                                                 *)
(***************************************************************************)
RealPairOpps(pd, i, j) ==
    LET buy_exchange  == pd[i].exchange
        sell_exchange == pd[j].exchange
        buy_price     == pd[i].ask
        sell_price    == pd[j].bid
    IN  (IF sell_price > buy_price
         THEN << [buy_source |-> buy_exchange, sell_source |-> sell_exchange,
                  buy_price |-> buy_price, sell_price |-> sell_price,
                  profit_pct |-> Pct(buy_price, sell_price)] >>
         ELSE <<>>)
        \o
        (IF buy_price > sell_price
         THEN << [buy_source |-> sell_exchange, sell_source |-> buy_exchange,
                  buy_price |-> sell_price, sell_price |-> buy_price,
                  profit_pct |-> Pct(sell_price, buy_price)] >>
         ELSE <<>>)

RealCalculate(pd) ==
    IF Len(pd) < 2 THEN <<>>
    ELSE LET pairs == IndexPairs(Len(pd))
         IN  SortDesc(Flatten([k \in 1..Len(pairs) |->
                                  RealPairOpps(pd, pairs[k][1], pairs[k][2])]))

(***************************************************************************)
(* EnhancedCCXTProvider.calculate_arbitrage_opportunities, lines 367-400:  *)
(* pairs with i >= j are skipped; buy at ticker1's ask, sell at ticker2's  *)
(* bid, appended when both are truthy and sell_price > buy_price.          *)
(***************************************************************************)
CCXTPairOpps(tickers, i, j) ==
    LET buy_price  == tickers[i].ask
        sell_price == tickers[j].bid
    IN  IF buy_price # 0 /\ sell_price # 0 /\ sell_price > buy_price
        THEN << [buy_source |-> tickers[i].exchange, sell_source |-> tickers[j].exchange,
                 buy_price |-> buy_price, sell_price |-> sell_price,
                 profit_abs |-> sell_price - buy_price,
                 profit_pct |-> Pct(buy_price, sell_price)] >>
        ELSE <<>>

CCXTCalculate(tickers) ==
    IF Len(tickers) < 2 THEN <<>>
    ELSE LET pairs == IndexPairs(Len(tickers))
         IN  SortDesc(Flatten([k \in 1..Len(pairs) |->
                                  CCXTPairOpps(tickers, pairs[k][1], pairs[k][2])]))

(***************************************************************************)
(* MultiSourceCryptoProvider.calculate_arbitrage_opportunities, lines      *)
(* 333-363: the same loop over the single 'price' of each source.          *)
(***************************************************************************)
MultiPairOpps(pd, i, j) ==
    LET price1 == pd[i].price
        price2 == pd[j].price
    IN  IF price2 > price1
        THEN << [buy_source |-> pd[i].exchange, sell_source |-> pd[j].exchange,
                 buy_price |-> price1, sell_price |-> price2,
                 profit_abs |-> price2 - price1,
                 profit_pct |-> Pct(price1, price2)] >>
        ELSE <<>>

MultiCalculate(pd) ==
    IF Len(pd) < 2 THEN <<>>
    ELSE LET pairs == IndexPairs(Len(pd))
         IN  SortDesc(Flatten([k \in 1..Len(pairs) |->
                                  MultiPairOpps(pd, pairs[k][1], pairs[k][2])]))

(***************************************************************************)
(* RealDataService.get_real_arbitrage_opportunities, lines 205-304, on an  *)
(* empty service cache and for one symbol: the real-exchange opportunities *)
(* above 0.1 %, then (fewer than 5 so far) the multi-source ones above     *)
(* 0.1 %, then (none so far, CCXT available) the CCXT ones above 0.1 %;    *)
(* sorted by profit_margin, descending; the first 20.                      *)
(***************************************************************************)
ToArbitrageOpportunity(opp) ==
    [buy_exchange |-> opp.buy_source, sell_exchange |-> opp.sell_source,
     buy_price |-> opp.buy_price, sell_price |-> opp.sell_price,
     profit_pct |-> opp.profit_pct]

AboveMinimum(opps) ==
    LET kept == SelectSeq(opps, LAMBDA o : PctAboveTenths(o.profit_pct, 1))
    IN  [k \in 1..Len(kept) |-> ToArbitrageOpportunity(kept[k])]

\* (mutant) the list is cut to 20 before it is sorted
ServiceOpportunities_cut(real, multi, ccxt, has_ccxt) ==
    LET fromReal  == AboveMinimum(real)
        withMulti == IF Len(fromReal) < 5 THEN fromReal \o AboveMinimum(multi)
                     ELSE fromReal
        withCcxt  == IF withMulti = <<>> /\ has_ccxt THEN AboveMinimum(ccxt)
                     ELSE withMulti
    IN  SortDesc(SubSeq(withCcxt, 1, IF Len(withCcxt) < 20 THEN Len(withCcxt) ELSE 20))

ServiceOpportunities(real, multi, ccxt, has_ccxt) ==
    LET fromReal  == AboveMinimum(real)
        withMulti == IF Len(fromReal) < 5 THEN fromReal \o AboveMinimum(multi)
                     ELSE fromReal
        withCcxt  == IF withMulti = <<>> /\ has_ccxt THEN AboveMinimum(ccxt)
                     ELSE withMulti
        sorted    == SortDesc(withCcxt)
    IN  SubSeq(sorted, 1, IF Len(sorted) < 20 THEN Len(sorted) ELSE 20)

(***************************************************************************)
(* The calculator part: a QuoteSet is drawn, each provider computes its    *)
(* opportunities from it, and the service builds its list.                 *)
(***************************************************************************)
CalcIdle ==
    /\ min_profit_threshold = 1
    /\ price_data_synthetic = FALSE
    /\ price_data = <<>>
    /\ ccxt_available = TRUE
    /\ real_opps = None /\ ccxt_opps = None /\ multi_opps = None /\ svc_opps = None
    /\ calc_pc = "idle"

CalcInit ==
    /\ min_profit_threshold \in MinProfitChoices
    /\ price_data_synthetic \in BOOLEAN
    /\ price_data \in QuoteSets
    /\ ccxt_available \in BOOLEAN
    /\ real_opps = None /\ ccxt_opps = None /\ multi_opps = None /\ svc_opps = None
    /\ calc_pc = "start"

RealCalc ==
    /\ calc_pc = "start"
    /\ real_opps' = RealCalculate(price_data)
    /\ calc_pc' = "real"
    /\ UNCHANGED <<min_profit_threshold, price_data_synthetic, price_data, ccxt_available, ccxt_opps, multi_opps, svc_opps>>
    /\ UNCHANGED calcOthers

MultiCalc ==
    /\ calc_pc = "real"
    /\ multi_opps' = MultiCalculate(price_data)
    /\ calc_pc' = "multi"
    /\ UNCHANGED <<min_profit_threshold, price_data_synthetic, price_data, ccxt_available, real_opps, ccxt_opps, svc_opps>>
    /\ UNCHANGED calcOthers

CCXTCalc ==
    /\ calc_pc = "multi"
    /\ ccxt_opps' = CCXTCalculate(price_data)
    /\ calc_pc' = "ccxt"
    /\ UNCHANGED <<min_profit_threshold, price_data_synthetic, price_data, ccxt_available, real_opps, multi_opps, svc_opps>>
    /\ UNCHANGED calcOthers

ServiceCalc ==
    /\ calc_pc = "ccxt"
    /\ svc_opps' = ServiceOpportunities(real_opps, multi_opps, ccxt_opps, ccxt_available)
    /\ calc_pc' = "done"
    /\ UNCHANGED <<min_profit_threshold, price_data_synthetic, price_data, ccxt_available, real_opps, ccxt_opps, multi_opps>>
    /\ UNCHANGED calcOthers

CalcNext == RealCalc \/ MultiCalc \/ CCXTCalc \/ ServiceCalc

\* the same pass on the quotes of the threshold cases
ThrInit ==
    /\ min_profit_threshold \in MinProfitChoices
    /\ price_data_synthetic \in BOOLEAN
    /\ price_data \in QuoteSetsOf(ThresholdQuoteChoices)
    /\ ccxt_available \in BOOLEAN
    /\ real_opps = None /\ ccxt_opps = None /\ multi_opps = None /\ svc_opps = None
    /\ calc_pc = "start"


(***************************************************************************)
(* RealExchangeProvider: the per-exchange breaker (lines 224-251) and      *)
(* _make_request_with_retry (lines 253-304), for one exchange and          *)
(* sequential requests. Time is in minutes; the sleeps of the loop are     *)
(* steps of the clock between two steps of the call.                       *)
(***************************************************************************)
max_retries == 3

BreakerThreshold == 5

BreakerCooldown == 5

\* exchanges[exchange_id]['backup_urls'], lines 70, 82, 106
ExchangeIds == {"binance", "okx", "gate"}

NumBackupUrls(exchange_id) ==
    CASE exchange_id = "binance" -> 2
      [] exchange_id = "okx"     -> 1
      [] OTHER                   -> 0

\* urls_to_try = [url] + backup urls, lines 260-261
NumUrlsToTry(exchange_id) == 1 + NumBackupUrls(exchange_id)

\* what one session.get can end in: response.status, asyncio.TimeoutError,
\* aiohttp.ClientError or another exception (response.json() raising included)
Responses == {"200", "429", "403", "451", "500", "timeout", "client_error", "exception"}

\* _is_circuit_breaker_open, lines 227-230: the cooldown has passed
CooldownElapsed(last_failure, now) == now - last_failure > BreakerCooldown

\* (mutant) the breaker opens only above the threshold
_is_circuit_breaker_open_above(failures, last_failure, now) ==
    /\ failures > BreakerThreshold
    /\ last_failure # NoTime
    /\ ~CooldownElapsed(last_failure, now)

\* _is_circuit_breaker_open: what it returns
_is_circuit_breaker_open(failures, last_failure, now) ==
    /\ failures >= BreakerThreshold
    /\ last_failure # NoTime
    /\ ~CooldownElapsed(last_failure, now)

\* _is_circuit_breaker_open: it resets the breaker, lines 230-235
BreakerResets(failures, last_failure, now) ==
    /\ failures >= BreakerThreshold
    /\ last_failure # NoTime
    /\ CooldownElapsed(last_failure, now)

\* (mutant) the failure is recorded once per attempt
_record_failure_count_per_attempt(failures) == failures + max_retries

\* _record_failure, line 247
_record_failure_count(failures) == failures + 1

\* _record_failure, lines 249-250
_record_failure_status(failures, status) ==
    IF failures >= BreakerThreshold THEN "ERROR" ELSE status

\* _record_success, line 241
_record_success_count(failures) == 0

RepIdle ==
    /\ rq_exchange = "binance"
    /\ breaker_failures = 0 /\ breaker_last_failure = NoTime
    /\ exchange_status = "ACTIVE"
    /\ rep_now = 0
    /\ rq_pc = "idle" /\ rq_attempt = 0 /\ rq_url = 1
    /\ rq_result = "none" /\ rq_failures0 = 0 /\ rq_recovering = FALSE
    /\ rq_saw_429 = FALSE /\ rq_after_429 = FALSE
    /\ rq_saw_block = FALSE /\ rq_after_block = FALSE

\* __init__, lines 142-145
RepInit ==
    /\ rq_exchange \in ExchangeIds
    /\ breaker_failures = 0 /\ breaker_last_failure = NoTime
    /\ exchange_status = "ACTIVE"
    /\ rep_now = 0
    /\ rq_pc = "idle" /\ rq_attempt = 0 /\ rq_url = 1
    /\ rq_result = "none" /\ rq_failures0 = 0 /\ rq_recovering = FALSE
    /\ rq_saw_429 = FALSE /\ rq_after_429 = FALSE
    /\ rq_saw_block = FALSE /\ rq_after_block = FALSE

RepTick ==
    /\ rep_now < RepMaxTime
    /\ rep_now' = rep_now + 1
    /\ UNCHANGED <<rq_exchange, breaker_failures, breaker_last_failure, exchange_status,
                   rq_pc, rq_attempt, rq_url, rq_result, rq_failures0,
                   rq_recovering, rq_saw_429, rq_after_429,
                   rq_saw_block, rq_after_block>>
    /\ UNCHANGED repOthers

\* lines 255-257: the breaker is open, the request is skipped
ReqSkip ==
    /\ rq_pc = "idle"
    /\ _is_circuit_breaker_open(breaker_failures, breaker_last_failure, rep_now)
    /\ rq_result' = "skipped"
    /\ UNCHANGED <<rq_exchange, breaker_failures, breaker_last_failure, exchange_status,
                   rep_now, rq_pc, rq_attempt, rq_url, rq_failures0,
                   rq_recovering, rq_saw_429, rq_after_429,
                   rq_saw_block, rq_after_block>>
    /\ UNCHANGED repOthers

\* lines 255-265: the breaker is not open (it is reset when its cooldown
\* has passed), and the loops begin
ReqStart ==
    /\ rq_pc = "idle"
    /\ ~_is_circuit_breaker_open(breaker_failures, breaker_last_failure, rep_now)
    /\ LET reset == BreakerResets(breaker_failures, breaker_last_failure, rep_now)
       IN  /\ breaker_failures' = IF reset THEN 0 ELSE breaker_failures
           /\ breaker_last_failure' = IF reset THEN NoTime ELSE breaker_last_failure
           /\ exchange_status' = IF reset THEN "ACTIVE" ELSE exchange_status
           /\ rq_recovering' = reset
           /\ rq_failures0' = breaker_failures'
    /\ rq_pc' = "send" /\ rq_attempt' = 0 /\ rq_url' = 1
    /\ rq_result' = "none"
    /\ rq_saw_429' = FALSE /\ rq_after_429' = FALSE
    /\ rq_saw_block' = FALSE /\ rq_after_block' = FALSE
    /\ UNCHANGED <<rq_exchange, rep_now>>
    /\ UNCHANGED repOthers

\* mutant: a request that returned no data is sent again to the same url
ReqAdvance_again(r) ==
    /\ exchange_status' = IF r = "429" THEN "RATE_LIMITED" ELSE exchange_status
    /\ UNCHANGED <<breaker_failures, breaker_last_failure, rq_pc, rq_result,
                   rq_attempt, rq_url>>

\* the loops after a request that did not return data: 403 and 451 break
\* out of the inner loop (line 288), anything else goes on to the next url;
\* past the last url the next attempt begins; past the last attempt the
\* failure is recorded (line 303)
ReqAdvance(r) ==
    LET lastUrl     == r \in {"403", "451"} \/ rq_url = NumUrlsToTry(rq_exchange)
        lastAttempt == rq_attempt = max_retries - 1
    IN  IF lastUrl /\ lastAttempt
        THEN /\ breaker_failures' = _record_failure_count(breaker_failures)
             /\ breaker_last_failure' = rep_now
             /\ exchange_status' =
                    _record_failure_status(breaker_failures',
                        IF r = "429" THEN "RATE_LIMITED" ELSE exchange_status)
             /\ rq_pc' = "idle" /\ rq_result' = "failed"
             /\ UNCHANGED <<rq_attempt, rq_url>>
        ELSE /\ rq_attempt' = IF lastUrl THEN rq_attempt + 1 ELSE rq_attempt
             /\ rq_url' = IF lastUrl THEN 1 ELSE rq_url + 1
             /\ exchange_status' = IF r = "429" THEN "RATE_LIMITED" ELSE exchange_status
             /\ UNCHANGED <<breaker_failures, breaker_last_failure, rq_pc, rq_result>>

\* lines 268-301: one session.get and what follows it
ReqRespond(r) ==
    /\ rq_pc = "send"
    /\ rq_after_429' = (rq_after_429 \/ rq_saw_429)
    /\ rq_saw_429' = (rq_saw_429 \/ r = "429")
    /\ rq_after_block' = (rq_after_block \/ rq_saw_block)
    /\ rq_saw_block' = (rq_saw_block \/ r \in {"403", "451"})
    /\ IF r = "200"
       THEN /\ breaker_failures' = _record_success_count(breaker_failures)
            /\ exchange_status' = "ACTIVE"
            /\ rq_pc' = "idle" /\ rq_result' = "data"
            /\ UNCHANGED <<breaker_last_failure, rq_attempt, rq_url>>
       ELSE ReqAdvance(r)
    /\ UNCHANGED <<rq_exchange, rep_now, rq_failures0, rq_recovering>>
    /\ UNCHANGED repOthers

RepNext ==
    \/ RepTick
    \/ ReqSkip
    \/ ReqStart
    \/ \E r \in Responses : ReqRespond(r)

(***************************************************************************)
(* Claims about the calculators.                                           *)
(***************************************************************************)
\* the quote of source src in the QuoteSet pd
QuoteOf(pd, src) == pd[CHOOSE k \in 1..Len(pd) : pd[k].exchange = src]

Range(s) == { s[k] : k \in 1..Len(s) }

\* the scenarios' sources A and B: the first two source ids
SourceA == CHOOSE s \in SourceIds : \A t \in SourceIds : s <= t

SourceB == SourceA + 1

IsScenario(bidA, askA, bidB, askB) ==
    /\ Len(price_data) = 2
    /\ { price_data[1].exchange, price_data[2].exchange } = { SourceA, SourceB }
    /\ QuoteOf(price_data, SourceA).bid = bidA /\ QuoteOf(price_data, SourceA).ask = askA
    /\ QuoteOf(price_data, SourceB).bid = bidB /\ QuoteOf(price_data, SourceB).ask = askB

\* C1: every opportunity RealExchangeProvider.calculate_arbitrage_opportunities
\* emits has buy_price = ask of its buy_source, sell_price = bid of its
\* sell_source and sell_price > buy_price, in the forward and in the
\* 'reverse check' branch.
C1_GenuineSpread ==
    real_opps # None =>
        \A o \in Range(real_opps) :
            /\ o.buy_price = QuoteOf(price_data, o.buy_source).ask
            /\ o.sell_price = QuoteOf(price_data, o.sell_source).bid
            /\ o.sell_price > o.buy_price

\* C2: the CCXT and the multi-source calculator check both directions of
\* every pair: whenever the sell price at X exceeds the buy price at Y, for
\* distinct X and Y, an opportunity buy = Y, sell = X is emitted, whatever
\* the positions of X and Y in the list.
C2_BothDirections ==
    /\ ccxt_opps # None =>
           \A x, y \in 1..Len(price_data) :
               (x # y /\ price_data[x].bid > price_data[y].ask) =>
                   \E o \in Range(ccxt_opps) :
                       /\ o.buy_source = price_data[y].exchange
                       /\ o.sell_source = price_data[x].exchange
    /\ multi_opps # None =>
           \A x, y \in 1..Len(price_data) :
               (x # y /\ price_data[x].price > price_data[y].price) =>
                   \E o \in Range(multi_opps) :
                       /\ o.buy_source = price_data[y].exchange
                       /\ o.sell_source = price_data[x].exchange

\* C3: scenario 2, {A: bid 100, ask 101}, {B: bid 99, ask 100}, in either
\* order: RealExchangeProvider.calculate_arbitrage_opportunities is empty,
\* and so is the list the service builds from it.
C3_Scenario2Empty ==
    IsScenario(100, 101, 99, 100) =>
        /\ real_opps # None => real_opps = <<>>
        /\ svc_opps # None => svc_opps = <<>>

\* C4: scenario 1, {A: bid 100, ask 101}, {B: bid 103, ask 104}: exactly one
\* opportunity, buy = A at 101, sell = B at 103 (profit_abs 2, profit_pct
\* about 1.98), whichever of A and B comes first, from the real-exchange
\* and from the CCXT calculator.
IsScenario1Opp(o) ==
    /\ o.buy_source = SourceA /\ o.sell_source = SourceB
    /\ o.buy_price = 101 /\ o.sell_price = 103
    /\ o.sell_price - o.buy_price = 2
    /\ 198 * o.profit_pct.den <= 100 * o.profit_pct.num
    /\ 100 * o.profit_pct.num < 199 * o.profit_pct.den

C4_Scenario1One ==
    IsScenario(100, 101, 103, 104) =>
        /\ real_opps # None => (Len(real_opps) = 1 /\ IsScenario1Opp(real_opps[1]))
        /\ ccxt_opps # None => (Len(ccxt_opps) = 1 /\ IsScenario1Opp(ccxt_opps[1])
                                   /\ ccxt_opps[1].profit_abs = 2)

(***************************************************************************)
(* CircuitBreaker, utils/unified_error_handler.py lines 47-90.             *)
(***************************************************************************)
CBCallers == {1, 2}

Min(a, b) == IF a < b THEN a ELSE b

\* (mutant) the reset is due only once more than recovery_timeout has elapsed
_should_attempt_reset_strict(lft, now) ==
    IF lft = NoTime THEN TRUE ELSE now - lft > recovery_timeout

\* _should_attempt_reset: no failure recorded yet, or recovery_timeout has
\* elapsed since the last one
_should_attempt_reset(lft, now) ==
    IF lft = NoTime THEN TRUE ELSE now - lft >= recovery_timeout

\* mutant: a success closes the breaker and keeps the count
_on_success_count_keep(count) == count

\* _on_success: failure_count = 0, state = "CLOSED"
_on_success_count(count) == 0

_on_success_state(st) == "CLOSED"

\* _on_failure: failure_count += 1; the state becomes "OPEN" when the new
\* count has reached failure_threshold
_on_failure_count(count) == count + 1

\* (mutant) the breaker opens one failure late
_on_failure_state_late(st, count) ==
    IF count > failure_threshold THEN "OPEN" ELSE st

_on_failure_state(st, count) ==
    IF count >= failure_threshold THEN "OPEN" ELSE st

CBIdle ==
    /\ cb_state = "CLOSED" /\ failure_count = 0 /\ last_failure_time = NoTime
    /\ cb_now = 0
    /\ cb_active = {}
    /\ cb_pc = [c \in CBCallers |-> "idle"]
    /\ cb_result = [c \in CBCallers |-> "none"]
    /\ cb_run = 0 /\ cb_calls = 0 /\ cb_probe = "none"

\* __init__, and one sequential caller
CBInit ==
    /\ cb_state = "CLOSED" /\ failure_count = 0 /\ last_failure_time = NoTime
    /\ cb_now = 0
    /\ cb_active = {1}
    /\ cb_pc = [c \in CBCallers |-> "idle"]
    /\ cb_result = [c \in CBCallers |-> "none"]
    /\ cb_run = 0 /\ cb_calls = 0 /\ cb_probe = "none"

CBTick ==
    /\ cb_now < MaxTime
    /\ cb_now' = cb_now + 1
    /\ UNCHANGED <<cb_state, failure_count, last_failure_time, cb_active, cb_pc,
                   cb_result, cb_run, cb_calls, cb_probe>>
    /\ UNCHANGED cbOthers

\* call, lines 59-63, when the breaker refuses: OPEN and no reset due
CBReject(c) ==
    /\ c \in cb_active /\ cb_pc[c] = "idle" /\ cb_calls < MaxCalls
    /\ cb_state = "OPEN" /\ ~_should_attempt_reset(last_failure_time, cb_now)
    /\ cb_result' = [cb_result EXCEPT ![c] = "rejected"]
    /\ cb_run' = Min(cb_run + 1, failure_threshold)
    /\ cb_calls' = cb_calls + 1
    /\ UNCHANGED <<cb_state, failure_count, last_failure_time, cb_now, cb_active, cb_pc,
                   cb_probe>>
    /\ UNCHANGED cbOthers

\* call, lines 59-66, when func is invoked: the state is not OPEN, or it is
\* and a reset is due (state = "HALF_OPEN")
CBEnter(c) ==
    /\ c \in cb_active /\ cb_pc[c] = "idle" /\ cb_calls < MaxCalls
    /\ cb_state = "OPEN" => _should_attempt_reset(last_failure_time, cb_now)
    /\ cb_state' = IF cb_state = "OPEN" THEN "HALF_OPEN" ELSE cb_state
    /\ cb_pc' = [cb_pc EXCEPT ![c] = "in_func"]
    /\ cb_calls' = cb_calls + 1
    /\ cb_probe' = IF cb_state = "OPEN" THEN "admitted" ELSE cb_probe
    /\ UNCHANGED <<failure_count, last_failure_time, cb_now, cb_active, cb_result, cb_run>>
    /\ UNCHANGED cbOthers

\* call, lines 66-68: func returned
CBReturn(c) ==
    /\ cb_pc[c] = "in_func"
    /\ failure_count' = _on_success_count(failure_count)
    /\ cb_state' = _on_success_state(cb_state)
    /\ cb_pc' = [cb_pc EXCEPT ![c] = "idle"]
    /\ cb_result' = [cb_result EXCEPT ![c] = "returned"]
    /\ cb_run' = 0
    /\ cb_probe' = IF cb_state = "HALF_OPEN" THEN "closed" ELSE cb_probe
    /\ UNCHANGED <<last_failure_time, cb_now, cb_active, cb_calls>>
    /\ UNCHANGED cbOthers

\* call, lines 69-71: func raised
CBRaise(c) ==
    /\ cb_pc[c] = "in_func"
    /\ failure_count' = _on_failure_count(failure_count)
    /\ last_failure_time' = cb_now
    /\ cb_state' = _on_failure_state(cb_state, failure_count')
    /\ cb_pc' = [cb_pc EXCEPT ![c] = "idle"]
    /\ cb_result' = [cb_result EXCEPT ![c] = "raised"]
    /\ cb_run' = Min(cb_run + 1, failure_threshold)
    /\ cb_probe' = IF cb_state = "HALF_OPEN" THEN "reopened" ELSE cb_probe
    /\ UNCHANGED <<cb_now, cb_active, cb_calls>>
    /\ UNCHANGED cbOthers

CBNext ==
    \/ CBTick
    \/ \E c \in CBCallers : CBReject(c)
    \/ \E c \in CBCallers : CBEnter(c)
    \/ \E c \in CBCallers : CBReturn(c)
    \/ \E c \in CBCallers : CBRaise(c)


(***************************************************************************)
(* Claims about CircuitBreaker (sequential callers, SpecCB).               *)
(***************************************************************************)
\* a call is made in this step
CBCallMade == cb_calls' = cb_calls + 1

\* caller c's call ends in this step with result r
CBCallEnds(c, r) ==
    cb_pc[c] = "in_func" /\ cb_pc'[c] = "idle" /\ cb_result'[c] = r

\* C5: once failure_threshold consecutive calls have raised (no success in
\* between), every further call made while less than recovery_timeout has
\* elapsed since the last recorded failure raises without invoking func.
C5_FailFast ==
    [][ ( /\ cb_run >= failure_threshold
          /\ last_failure_time # NoTime
          /\ cb_now - last_failure_time < recovery_timeout
          /\ CBCallMade )
        => ( /\ cb_pc' = cb_pc
             /\ \E c \in cb_active : cb_pc[c] = "idle" /\ cb_result'[c] = "rejected" ) ]_vars

\* a call was refused inside the cooldown that follows failure_threshold
\* consecutive failures
C5_Witness ==
    /\ cb_run >= failure_threshold
    /\ cb_result[1] = "rejected"
    /\ cb_calls > failure_threshold
    /\ cb_now - last_failure_time < recovery_timeout

\* C6: from OPEN, the first call made once recovery_timeout has elapsed is
\* admitted as a probe (state HALF_OPEN) and invokes func; a probe that
\* succeeds leaves the breaker CLOSED with failure_count = 0; a probe that
\* fails leaves it OPEN after that single failure, with a fresh cooldown.
C6_HalfOpenMachine ==
    [][ /\ ( /\ cb_state = "OPEN"
             /\ cb_now - last_failure_time >= recovery_timeout
             /\ CBCallMade )
           => ( /\ cb_state' = "HALF_OPEN"
                /\ \E c \in cb_active : cb_pc[c] = "idle" /\ cb_pc'[c] = "in_func" )
        /\ \A c \in cb_active :
             /\ (cb_state = "HALF_OPEN" /\ CBCallEnds(c, "returned"))
                   => (cb_state' = "CLOSED" /\ failure_count' = 0)
             /\ (cb_state = "HALF_OPEN" /\ CBCallEnds(c, "raised"))
                   => ( /\ cb_state' = "OPEN"
                        /\ last_failure_time' = cb_now
                        /\ cb_now' - last_failure_time' < recovery_timeout ) ]_vars

\* a probe was admitted after the cooldown, failed, and the breaker is OPEN
\* again with the cooldown restarted
C6_Witness ==
    /\ cb_probe = "reopened"
    /\ cb_state = "OPEN"
    /\ cb_result[1] = "raised"
    /\ last_failure_time = cb_now
    /\ failure_count > failure_threshold

(***************************************************************************)
(* Claims about RealExchangeProvider's breaker and retry loop (SpecREP).   *)
(***************************************************************************)
\* the call ends in this step with result r
ReqEnds(r) == rq_pc = "send" /\ rq_pc' = "idle" /\ rq_result' = r

\* C7: once the exchange's breaker has opened and its cooldown has elapsed,
\* the first request that fails (exhausts its retries) re-opens the
\* breaker, so the next request to that exchange is skipped again.
C7_ProbeFailureReopens ==
    ( /\ rq_pc = "idle" /\ rq_result = "failed"
      /\ rq_recovering
      /\ rep_now = breaker_last_failure )
    => _is_circuit_breaker_open(breaker_failures, breaker_last_failure, rep_now)

\* C8: in _make_request_with_retry a successful response resets the
\* exchange's failure count to 0; a call that exhausts all its attempts
\* adds exactly 1 to the count it began with (not 1 per attempt), and the
\* breaker is open from then on exactly when the count has reached 5.
C8_FailureAccounting ==
    [][ /\ ReqEnds("data") => breaker_failures' = 0
        /\ ReqEnds("failed") =>
             /\ breaker_failures' = rq_failures0 + 1
             /\ (breaker_failures' >= BreakerThreshold)
                    <=> _is_circuit_breaker_open(breaker_failures', breaker_last_failure',
                                                 rep_now')
             /\ breaker_failures' >= BreakerThreshold => exchange_status' = "ERROR" ]_vars

\* the fifth exhausted call in a row has opened the breaker
C8_Witness ==
    /\ rq_pc = "idle" /\ rq_result = "failed"
    /\ rq_failures0 = BreakerThreshold - 1
    /\ breaker_failures = BreakerThreshold
    /\ exchange_status = "ERROR"
    /\ _is_circuit_breaker_open(breaker_failures, breaker_last_failure, rep_now)

\* C9: a RateLimited outcome is not retried: after the exchange answers
\* 429, _make_request_with_retry sends it no further request in the same
\* call.
C9_NoRequestAfter429 == ~rq_after_429

(***************************************************************************)
(* The read-through caches, for one key and callers that each make one     *)
(* call: the async_cached wrapper (optimized_cache.py lines 176-193) over  *)
(* OptimizedAsyncCache.get / set (lines 76-104), and                       *)
(* RealExchangeProvider.get_price_data (lines 536-623) over _get_from_cache*)
(* / _set_cache (lines 189-207). A coroutine runs without interruption     *)
(* between two awaits, so a step is the code from one await to the next.   *)
(* The value a fetch returns is its number, so that results of different   *)
(* fetches differ.                                                         *)
(***************************************************************************)
CacheCallers == 1..MaxCallers

\* RealExchangeProvider.cache_ttl, line 57: 60 seconds
cache_ttl == 1

\* CacheEntry.is_expired, line 32
is_expired(entry, now) == now - entry.timestamp > entry.ttl

\* OptimizedAsyncCache.get, lines 79-88: the stored, unexpired entry is a hit
CacheHit(entries, now) ==
    IF entries = << >> THEN FALSE ELSE ~is_expired(entries[1], now)

\* (mutant) no entry is ever valid
_is_cache_valid_never(entries, now) == FALSE

\* RealExchangeProvider._is_cache_valid, lines 189-194
_is_cache_valid(entries, now) ==
    IF entries = << >> THEN FALSE ELSE now - entries[1].timestamp < cache_ttl

CacheIdle ==
    /\ cache_now = 0
    /\ ac_entry = << >>
    /\ ac_pc = [c \in CacheCallers |-> "idle"]
    /\ ac_got = [c \in CacheCallers |-> 0]
    /\ ac_fetches = 0
    /\ gp_cache = << >>
    /\ gp_pc = [c \in CacheCallers |-> "idle"]
    /\ gp_got = [c \in CacheCallers |-> 0]
    /\ gp_fanouts = 0

\* both caches start empty (optimized_cache.py line 45,
\* real_exchange_provider.py line 56)
CacheInit == CacheIdle

CacheTick ==
    /\ cache_now < CacheMaxTime
    /\ cache_now' = cache_now + 1
    /\ UNCHANGED <<ac_entry, ac_pc, ac_got, ac_fetches, gp_cache, gp_pc, gp_got, gp_fanouts>>
    /\ UNCHANGED cacheOthers

\* wrapper, lines 182-184: _global_cache.get returns a stored, unexpired
\* value and the wrapper returns it
AcHit(c) ==
    /\ ac_pc[c] = "idle"
    /\ CacheHit(ac_entry, cache_now)
    /\ ac_got' = [ac_got EXCEPT ![c] = ac_entry[1].value]
    /\ ac_pc' = [ac_pc EXCEPT ![c] = "done"]
    /\ UNCHANGED <<cache_now, ac_entry, ac_fetches, gp_cache, gp_pc, gp_got, gp_fanouts>>
    /\ UNCHANGED cacheOthers

\* wrapper, lines 182-188: _global_cache.get finds no entry, or an expired
\* one that it deletes, and the wrapper calls the wrapped coroutine
AcMiss(c) ==
    /\ ac_pc[c] = "idle"
    /\ ~CacheHit(ac_entry, cache_now)
    /\ ac_entry' = << >>
    /\ ac_fetches' = ac_fetches + 1
    /\ ac_got' = [ac_got EXCEPT ![c] = ac_fetches']
    /\ ac_pc' = [ac_pc EXCEPT ![c] = "fetch"]
    /\ UNCHANGED <<cache_now, gp_cache, gp_pc, gp_got, gp_fanouts>>
    /\ UNCHANGED cacheOthers

\* wrapper, lines 188-190: the wrapped coroutine returned; its result is
\* stored with the time of the store and returned
AcStore(c) ==
    /\ ac_pc[c] = "fetch"
    /\ ac_entry' = <<[value |-> ac_got[c], timestamp |-> cache_now, ttl |-> ttl]>>
    /\ ac_pc' = [ac_pc EXCEPT ![c] = "done"]
    /\ UNCHANGED <<cache_now, ac_got, ac_fetches, gp_cache, gp_pc, gp_got, gp_fanouts>>
    /\ UNCHANGED cacheOthers

\* wrapper, lines 191-193: the wrapped coroutine raised; nothing is stored
AcRaise(c) ==
    /\ ac_pc[c] = "fetch"
    /\ ac_got' = [ac_got EXCEPT ![c] = 0]
    /\ ac_pc' = [ac_pc EXCEPT ![c] = "raised"]
    /\ UNCHANGED <<cache_now, ac_entry, ac_fetches, gp_cache, gp_pc, gp_got, gp_fanouts>>
    /\ UNCHANGED cacheOthers

\* get_price_data, lines 538-543: the cached QuoteSet is still valid
GpHit(c) ==
    /\ gp_pc[c] = "idle"
    /\ _is_cache_valid(gp_cache, cache_now)
    /\ gp_got' = [gp_got EXCEPT ![c] = gp_cache[1].data]
    /\ gp_pc' = [gp_pc EXCEPT ![c] = "done"]
    /\ UNCHANGED <<cache_now, ac_entry, ac_pc, ac_got, ac_fetches, gp_cache, gp_fanouts>>
    /\ UNCHANGED cacheOthers

\* get_price_data, lines 538-578: nothing valid is cached; the requests to
\* the exchanges are gathered
GpFanOut(c) ==
    /\ gp_pc[c] = "idle"
    /\ ~_is_cache_valid(gp_cache, cache_now)
    /\ gp_fanouts' = gp_fanouts + 1
    /\ gp_got' = [gp_got EXCEPT ![c] = gp_fanouts']
    /\ gp_pc' = [gp_pc EXCEPT ![c] = "fanout"]
    /\ UNCHANGED <<cache_now, ac_entry, ac_pc, ac_got, ac_fetches, gp_cache>>
    /\ UNCHANGED cacheOthers

\* get_price_data, lines 579-623: the gather ended (or timed out); the
\* QuoteSet built from it is cached and returned
GpStore(c) ==
    /\ gp_pc[c] = "fanout"
    /\ gp_cache' = <<[data |-> gp_got[c], timestamp |-> cache_now]>>
    /\ gp_pc' = [gp_pc EXCEPT ![c] = "done"]
    /\ UNCHANGED <<cache_now, ac_entry, ac_pc, ac_got, ac_fetches, gp_got, gp_fanouts>>
    /\ UNCHANGED cacheOthers

CacheNext ==
    \/ CacheTick
    \/ \E c \in CacheCallers : AcHit(c)
    \/ \E c \in CacheCallers : AcMiss(c)
    \/ \E c \in CacheCallers : AcStore(c)
    \/ \E c \in CacheCallers : AcRaise(c)
    \/ \E c \in CacheCallers : GpHit(c)
    \/ \E c \in CacheCallers : GpFanOut(c)
    \/ \E c \in CacheCallers : GpStore(c)

(***************************************************************************)
(* Claims about the caches (SpecCache).                                    *)
(***************************************************************************)
\* C10: cache coalescing: when N callers concurrently request the same key
\* while it is absent or expired, the underlying fetch runs exactly once
\* and all N callers receive its result -- one call of the wrapped
\* coroutine per key for async_cached, one fan-out per symbol for
\* get_price_data. So no two fetches of the key are ever in flight at
\* once, and callers that all ask before anything can have expired
\* (cache_now = 0) cause one fetch and get one and the same result.
C10_Coalescing ==
    /\ Cardinality({ c \in CacheCallers : ac_pc[c] = "fetch" }) <= 1
    /\ Cardinality({ c \in CacheCallers : gp_pc[c] = "fanout" }) <= 1
    /\ cache_now = 0 =>
         /\ ac_fetches <= 1
         /\ gp_fanouts <= 1
         /\ \A c, e \in CacheCallers :
                (ac_pc[c] = "done" /\ ac_pc[e] = "done") => ac_got[c] = ac_got[e]
         /\ \A c, e \in CacheCallers :
                (gp_pc[c] = "done" /\ gp_pc[e] = "done") => gp_got[c] = gp_got[e]

(***************************************************************************)
(* RealDataService's cache (real_data_service.py lines 93-112) under one   *)
(* key, read through by a cached getter such as get_real_market_data       *)
(* (lines 114-195): a valid entry is returned, otherwise the data is       *)
(* computed and stored with the time of the store. The data is named by    *)
(* the time of its computation.                                            *)
(***************************************************************************)
\* RealDataService._cache_ttl, line 83
_cache_ttl == 30

\* timedelta.seconds is the seconds field of the normalised difference,
\* 0..86399: whole days are carried by timedelta.days (line 99)
SecondsPerDay == 86400

TimedeltaSeconds(age) == age % SecondsPerDay

\* the time steps between two calls
SvcDelays == {29, 30, SecondsPerDay}

\* RealDataService._is_cache_valid, lines 93-99
svc_is_cache_valid(entries, now) ==
    IF entries = << >> THEN FALSE
    ELSE TimedeltaSeconds(now - entries[1].timestamp) < _cache_ttl

SvcIdle ==
    /\ svc_now = 0
    /\ svc_cache = << >>
    /\ svc_pc = "idle"
    /\ svc_got = NoTime
    /\ svc_served_age = NoTime

\* RealDataService.__init__, line 82: the cache starts empty
SvcInit == SvcIdle

SvcAdvance(d) ==
    /\ (svc_now + d) \div SecondsPerDay <= SvcMaxDays
    /\ (svc_now + d) % SecondsPerDay <= SvcMaxSeconds
    /\ svc_now' = svc_now + d
    /\ UNCHANGED <<svc_cache, svc_pc, svc_got, svc_served_age>>
    /\ UNCHANGED svcOthers

\* lines 116-120: _get_from_cache returns the entry's data and the getter
\* returns it
SvcHit ==
    /\ svc_pc = "idle"
    /\ svc_is_cache_valid(svc_cache, svc_now)
    /\ svc_got' = svc_cache[1].data
    /\ svc_served_age' = svc_now - svc_cache[1].timestamp
    /\ UNCHANGED <<svc_now, svc_cache, svc_pc>>
    /\ UNCHANGED svcOthers

\* lines 116-125: _get_from_cache returns None and the getter goes to the
\* providers
SvcMiss ==
    /\ svc_pc = "idle"
    /\ ~svc_is_cache_valid(svc_cache, svc_now)
    /\ svc_pc' = "compute"
    /\ UNCHANGED <<svc_now, svc_cache, svc_got, svc_served_age>>
    /\ UNCHANGED svcOthers

\* lines 126-142: the providers answered; the data is stored and returned
SvcStore ==
    /\ svc_pc = "compute"
    /\ svc_cache' = <<[data |-> svc_now, timestamp |-> svc_now]>>
    /\ svc_got' = svc_now
    /\ svc_served_age' = NoTime
    /\ svc_pc' = "idle"
    /\ UNCHANGED svc_now
    /\ UNCHANGED svcOthers

\* lines 189-194: no provider had data, or one raised: [] is returned and
\* nothing is stored
SvcEmpty ==
    /\ svc_pc = "compute"
    /\ svc_got' = NoTime
    /\ svc_served_age' = NoTime
    /\ svc_pc' = "idle"
    /\ UNCHANGED <<svc_now, svc_cache>>
    /\ UNCHANGED svcOthers

SvcNext ==
    \/ \E d \in SvcDelays : SvcAdvance(d)
    \/ SvcHit
    \/ SvcMiss
    \/ SvcStore
    \/ SvcEmpty

(***************************************************************************)
(* Claims about RealDataService's cache (SpecSvc).                         *)
(***************************************************************************)
\* C11: RealDataService never serves a cache entry older than its TTL: an
\* entry whose age is 30 seconds or more, of any magnitude including ages
\* beyond one day, is not returned from the cache.
C11_NoStaleServed == svc_served_age < _cache_ttl

(***************************************************************************)
(* One fan-out of RealExchangeProvider.get_price_data (lines 536-623) over *)
(* the exchanges of ExchangeIds, with the time each task takes. The tasks  *)
(* of the gather share no state, so they are run one after the other, each *)
(* with its own seconds since the gather began; a task that has not        *)
(* returned when the 30 s of wait_for are over is pending at the deadline. *)
(* A request is answered by one of FanResponses: a 200 with a valid quote  *)
(* after 1 s or after 9 s, a 200 whose quote fails _validate_price_data, a *)
(* task that raises, a timeout after the 10 s of the exchange's 'timeout', *)
(* or an error status after 1 s.                                           *)
(***************************************************************************)
\* exchange_methods, lines 550-556, in the order of the dict
FanOrder == <<"binance", "okx", "gate">>

FanResponses == {"quote_fast", "quote_slow", "invalid", "raises", "timeout", "error"}

\* seconds until the response; 'timeout': 10 is lines 75, 87, 111
FanDuration(r) ==
    CASE r = "timeout" -> 10
      [] r = "quote_slow" -> 9
      [] OTHER -> 1

\* wait_for(..., timeout=30.0), line 577
FanDeadline == 30

\* asyncio.sleep(min(10, 2 ** attempt)) when attempt < max_retries - 1,
\* lines 300-301
RetrySleep(attempt) ==
    IF attempt < max_retries - 1 THEN (IF 2 ^ attempt < 10 THEN 2 ^ attempt ELSE 10) ELSE 0

\* _generate_mock_price_data, lines 484-503: a quote for every enabled
\* exchange, with no 'data_source' field
_generate_mock_price_data ==
    { [exchange |-> e, generated |-> TRUE, data_source |-> "missing"] : e \in ExchangeIds }

\* mutant: the quote of a task that had to retry is dropped
RealQuotes_unretried(result) ==
    { [exchange |-> e, generated |-> FALSE, data_source |-> "real"] :
          e \in { x \in ExchangeIds : result[x] = "quote" /\ fan_reqs[x] = 1 } }

\* lines 593-596 and 614-617: the validated quotes of the tasks, tagged
RealQuotes(result) ==
    { [exchange |-> e, generated |-> FALSE, data_source |-> "real"] :
          e \in { x \in ExchangeIds : result[x] = "quote" } }

\* lines 573-581: a task pending at the deadline makes wait_for raise
\* TimeoutError, and every result of the pass is then None
DeadlineExpired(result) == \E e \in ExchangeIds : result[e] = "pending"

GatherResults(result) ==
    IF DeadlineExpired(result) THEN [e \in ExchangeIds |-> "none"] ELSE result

\* mutant: no synthetic quotes when nothing real is left
PriceDataOrMock_none(quotes) == quotes

\* mutant: the exchanges without a real quote get a synthetic one
PriceDataOrMock_fill(quotes) ==
    quotes \cup { m \in _generate_mock_price_data :
                     \A q \in quotes : q.exchange # m.exchange }

\* lines 609-617: synthetic quotes only if no real quote is left
PriceDataOrMock(quotes) ==
    IF quotes = {} THEN _generate_mock_price_data ELSE quotes

\* lines 589-601: the breaker counts after the results are processed
FailuresAfterProcessing(failures, result) ==
    [e \in ExchangeIds |->
        CASE result[e] \in {"exception", "invalid"} -> _record_failure_count(failures[e])
          [] result[e] = "quote" -> _record_success_count(failures[e])
          [] OTHER -> failures[e]]

\* lines 560-566: the tasks, for the exchanges whose breaker is not open
\* (a pass lasts seconds, so no cool-down ends within it)
FanTasks(failures) ==
    SelectSeq(FanOrder, LAMBDA e : ~_is_circuit_breaker_open(failures[e], 0, 0))

FanIdle ==
    /\ fan_failures = [e \in ExchangeIds |-> 0]
    /\ fan_pc = "idle"
    /\ fan_cur = 0 /\ fan_attempt = 0 /\ fan_url = 0 /\ fan_t = 0
    /\ fan_reqs = [e \in ExchangeIds |-> 0]
    /\ fan_timeouts = [e \in ExchangeIds |-> 0]
    /\ fan_result = [e \in ExchangeIds |-> "skipped"]
    /\ fan_returned = {}
    /\ fan_cache = << >>
    /\ fan_from_cache = FALSE

\* a provider whose breakers are closed (lines 142-145) or were opened by
\* earlier passes, at a call of get_price_data that finds nothing cached
FanInit ==
    /\ fan_failures \in [ExchangeIds -> {0, BreakerThreshold}]
    /\ fan_pc = "start"
    /\ fan_cur = 0 /\ fan_attempt = 0 /\ fan_url = 0 /\ fan_t = 0
    /\ fan_reqs = [e \in ExchangeIds |-> 0]
    /\ fan_timeouts = [e \in ExchangeIds |-> 0]
    /\ fan_result = [e \in ExchangeIds |-> "skipped"]
    /\ fan_returned = {}
    /\ fan_cache = << >>
    /\ fan_from_cache = FALSE

\* lines 559-571: no exchange is available: synthetic quotes are cached and
\* returned
FanNoTasks ==
    /\ fan_pc = "start"
    /\ FanTasks(fan_failures) = << >>
    /\ fan_returned' = _generate_mock_price_data
    /\ fan_cache' = <<fan_returned'>>
    /\ fan_pc' = "done"
    /\ UNCHANGED <<fan_failures, fan_cur, fan_attempt, fan_url, fan_t, fan_reqs,
                   fan_timeouts, fan_result, fan_from_cache>>
    /\ UNCHANGED fanOthers

\* lines 559-578: the tasks are gathered
FanGather ==
    /\ fan_pc = "start"
    /\ FanTasks(fan_failures) # << >>
    /\ fan_pc' = "request"
    /\ fan_cur' = 1 /\ fan_attempt' = 0 /\ fan_url' = 1 /\ fan_t' = 0
    /\ UNCHANGED <<fan_failures, fan_reqs, fan_timeouts, fan_result, fan_returned,
                   fan_cache, fan_from_cache>>
    /\ UNCHANGED fanOthers

\* the task being run ends with result res and breaker count f; the next
\* task begins, or the gather is over
FanTaskEnds(e, res, f) ==
    /\ fan_result' = [fan_result EXCEPT ![e] = res]
    /\ fan_failures' = [fan_failures EXCEPT ![e] = f]
    /\ fan_attempt' = 0 /\ fan_url' = 1 /\ fan_t' = 0
    /\ IF fan_cur < Len(FanTasks(fan_failures))
       THEN fan_cur' = fan_cur + 1 /\ fan_pc' = "request"
       ELSE fan_cur' = 0 /\ fan_pc' = "process"

\* one request of _make_request_with_retry (lines 263-304) in the task of
\* exchange FanTasks[fan_cur], answered by r
FanRequest(r) ==
    /\ fan_pc = "request"
    /\ LET e == FanTasks(fan_failures)[fan_cur]
           t == fan_t + FanDuration(r)
           last_url == fan_url = NumUrlsToTry(e)
           last == last_url /\ fan_attempt = max_retries - 1
       IN  /\ fan_reqs' = [fan_reqs EXCEPT ![e] = @ + 1]
           /\ fan_timeouts' = [fan_timeouts EXCEPT ![e] =
                  IF r = "timeout" /\ fan_timeouts[e] = fan_reqs[e] THEN @ + 1 ELSE @]
           /\ CASE t >= FanDeadline -> FanTaskEnds(e, "pending", fan_failures[e])
                [] r \in {"quote_fast", "quote_slow"} ->
                       FanTaskEnds(e, "quote", _record_success_count(fan_failures[e]))
                [] r = "invalid" ->
                       FanTaskEnds(e, "invalid", _record_success_count(fan_failures[e]))
                [] r = "raises" -> FanTaskEnds(e, "exception", fan_failures[e])
                [] last -> FanTaskEnds(e, "none", _record_failure_count(fan_failures[e]))
                [] OTHER ->
                       /\ fan_t' = t + RetrySleep(fan_attempt)
                       /\ fan_url' = IF last_url THEN 1 ELSE fan_url + 1
                       /\ fan_attempt' = IF last_url THEN fan_attempt + 1 ELSE fan_attempt
                       /\ UNCHANGED <<fan_failures, fan_pc, fan_cur, fan_result>>
    /\ UNCHANGED <<fan_returned, fan_cache, fan_from_cache>>
    /\ UNCHANGED fanOthers

\* lines 573-623: the gather is over or the deadline has expired; the
\* results are processed, the QuoteSet is cached and returned
FanProcess ==
    /\ fan_pc = "process"
    /\ LET results == GatherResults(fan_result)
       IN  /\ fan_failures' = FailuresAfterProcessing(fan_failures, results)
           /\ fan_returned' = PriceDataOrMock(RealQuotes(results))
    /\ fan_cache' = <<fan_returned'>>
    /\ fan_pc' = "done"
    /\ UNCHANGED <<fan_cur, fan_attempt, fan_url, fan_t, fan_reqs, fan_timeouts,
                   fan_result, fan_from_cache>>
    /\ UNCHANGED fanOthers

\* lines 538-543: the next call within cache_ttl returns the cached QuoteSet
FanCached ==
    /\ fan_pc = "done"
    /\ ~fan_from_cache
    /\ fan_returned' = fan_cache[1]
    /\ fan_from_cache' = TRUE
    /\ UNCHANGED <<fan_failures, fan_pc, fan_cur, fan_attempt, fan_url, fan_t, fan_reqs,
                   fan_timeouts, fan_result, fan_cache>>
    /\ UNCHANGED fanOthers

FanNext ==
    \/ FanNoTasks
    \/ FanGather
    \/ \E r \in FanResponses : FanRequest(r)
    \/ FanProcess
    \/ FanCached

(***************************************************************************)
(* Claims about the fan-out of get_price_data (SpecFan).                   *)
(***************************************************************************)
\* the exchanges whose task gave the gather a valid quote in time
FanQuoted == { e \in ExchangeIds : fan_result[e] = "quote" }

AllSynthetic(quotes) == \A q \in quotes : q.generated

RealQuoteOf(e) == [exchange |-> e, generated |-> FALSE, data_source |-> "real"]

\* C12: whenever fewer than 2 real quotes survive the fan-out (exactly one
\* valid real quote included), the returned QuoteSet is the synthetic one,
\* so the caller always receives at least 2 quotes.
C12_SyntheticBelowTwo ==
    fan_pc = "done" =>
        /\ Cardinality(RealQuotes(GatherResults(fan_result))) < 2 => AllSynthetic(fan_returned)
        /\ Cardinality(fan_returned) >= 2

\* C13: if every source fails (error, timeout, exception, invalid data or
\* open breaker), get_price_data returns a non-empty QuoteSet made only of
\* synthetic quotes.
C13_FallbackAvailable ==
    (fan_pc = "done" /\ FanQuoted = {}) =>
        /\ fan_returned # {}
        /\ AllSynthetic(fan_returned)

\* every source failed, each in another way: binance was skipped for its
\* open breaker, okx exhausted its retries, gate gave an invalid quote
C13_Witness ==
    /\ fan_pc = "done"
    /\ fan_result["binance"] = "skipped"
    /\ fan_result["okx"] = "none" /\ fan_reqs["okx"] = max_retries * NumUrlsToTry("okx")
    /\ fan_result["gate"] = "invalid"
    /\ fan_returned = _generate_mock_price_data

\* C14: in any QuoteSet returned by get_price_data, fresh or from the
\* cache, each quote has a data-quality field that says synthetic exactly
\* for generated quotes and real exactly for fetched quotes.
C14_ProvenanceTag ==
    fan_pc = "done" =>
        \A q \in fan_returned :
            q.data_source = (IF q.generated THEN "synthetic" ELSE "real")

\* C16: when the 30 s deadline expires while some tasks are pending, only
\* the pending sources count as failed; the quotes of the sources that had
\* already returned valid data are kept in the result.
C16_DeadlineKeepsQuotes ==
    (fan_pc = "done" /\ DeadlineExpired(fan_result)) =>
        \A e \in FanQuoted : RealQuoteOf(e) \in fan_returned

\* exchange e sent three requests, the first two timed out and the third
\* returned a valid quote
TimedOutTwiceThenQuote(e) ==
    fan_reqs[e] = 3 /\ fan_timeouts[e] = 2 /\ fan_result[e] = "quote"

Disclosed(o) ==
    /\ "data_quality" \in DOMAIN o
    /\ o.data_quality = "synthetic"

\* C15: the ranked list never silently mixes provenance: either all its
\* opportunities come from real quotes, or every opportunity derived from
\* synthetic quotes is distinguishable from the real ones in the returned
\* records.
C15_NoSilentMixing ==
    (calc_pc = "done" /\ price_data_synthetic) =>
        \A k \in 1..Len(svc_opps) :
            (\E m \in 1..Len(AboveMinimum(real_opps)) :
                 AboveMinimum(real_opps)[m] = svc_opps[k]) => Disclosed(svc_opps[k])

\* C19: every opportunity in the returned list has profit strictly greater
\* than the minimum threshold of 0.1 % (one at exactly the threshold is
\* excluded) and its buy exchange differs from its sell exchange.
C19_AboveThreshold ==
    calc_pc = "done" =>
        \A k \in 1..Len(svc_opps) :
            /\ svc_opps[k].profit_pct.num * 10 > svc_opps[k].profit_pct.den
            /\ svc_opps[k].buy_exchange # svc_opps[k].sell_exchange

\* the provider found an opportunity of exactly 0.1 %; the list has others
\* but not that one
C19_Witness ==
    /\ calc_pc = "done"
    /\ svc_opps # << >>
    /\ \E m \in 1..Len(real_opps) :
          /\ real_opps[m].profit_pct.num * 10 = real_opps[m].profit_pct.den
          /\ \A k \in 1..Len(svc_opps) :
                svc_opps[k] # ToArbitrageOpportunity(real_opps[m])

\* C20: scenario 4: the minimum profit threshold is configurable; with
\* min_profit_pct set to 0.5 a pair yielding 0.3 % is absent from the
\* output and a pair yielding 0.6 % is present.
C20_Scenario4 ==
    (calc_pc = "done" /\ min_profit_threshold = 5) =>
        /\ \A k \in 1..Len(svc_opps) :
               svc_opps[k].profit_pct.num * 10 # 3 * svc_opps[k].profit_pct.den
        /\ \A m \in 1..Len(real_opps) :
               real_opps[m].profit_pct.num * 10 = 6 * real_opps[m].profit_pct.den
                   => \E k \in 1..Len(svc_opps) :
                          svc_opps[k] = ToArbitrageOpportunity(real_opps[m])

(***************************************************************************)
(* RetryManager.retry_with_backoff (unified_error_handler.py lines 97-137) *)
(* around one function, which at each call returns ("ok"), raises one of   *)
(* exceptions ("fail") or raises something else ("other"). delay is the    *)
(* default 1.0 s; delays are in hundredths of a second.                    *)
(***************************************************************************)
RtOutcomes == {"ok", "fail", "other"}

\* 0.5 + random.random() * 0.5, in percent: a factor in [0.5, 1.0)
JitterPercents == {50, 75, 99}

\* mutant: the test is made against max_attempts, which attempt never reaches
IsLastAttempt_late(attempt, max_attempts) == attempt = max_attempts

\* lines 117-118: if attempt == max_attempts - 1: break
IsLastAttempt(attempt, max_attempts) == attempt = max_attempts - 1

\* lines 121-127: current_delay
current_delay(attempt, exponential_backoff, jitter_percent) ==
    ((IF exponential_backoff THEN 100 * (2 ^ attempt) ELSE 100) * jitter_percent) \div 100

RtIdle ==
    /\ rt_max_attempts = 1 /\ rt_exponential = TRUE /\ rt_jitter = TRUE
    /\ rt_pc = "idle" /\ rt_attempt = 0 /\ rt_last_exception = 0 /\ rt_slept = 0
    /\ rt_outcome = "none" /\ rt_value = 0
    /\ rt_calls = 0 /\ rt_failed = 0 /\ rt_sleeps = 0

\* wrapper is entered: lines 106-111, for any decorator arguments with
\* max_attempts >= 1
RtInit ==
    /\ rt_max_attempts \in 1..MaxAttempts
    /\ rt_exponential \in BOOLEAN /\ rt_jitter \in BOOLEAN
    /\ rt_pc = "call" /\ rt_attempt = 0 /\ rt_last_exception = 0 /\ rt_slept = 0
    /\ rt_outcome = "none" /\ rt_value = 0
    /\ rt_calls = 0 /\ rt_failed = 0 /\ rt_sleeps = 0

\* lines 111-118: one pass of the loop body up to the sleep
RtCall(o) ==
    /\ rt_pc = "call"
    /\ rt_calls' = rt_calls + 1
    /\ CASE o = "ok" ->
              /\ rt_outcome' = "returned" /\ rt_value' = rt_calls' /\ rt_pc' = "done"
              /\ UNCHANGED <<rt_last_exception, rt_failed>>
         [] o = "other" ->
              /\ rt_outcome' = "propagated" /\ rt_value' = rt_calls' /\ rt_pc' = "done"
              /\ UNCHANGED <<rt_last_exception, rt_failed>>
         [] OTHER ->
              /\ rt_last_exception' = rt_calls'
              /\ rt_failed' = rt_failed + 1
              /\ IF IsLastAttempt(rt_attempt, rt_max_attempts)
                 THEN rt_outcome' = "raised" /\ rt_value' = rt_last_exception' /\ rt_pc' = "done"
                 ELSE rt_pc' = "sleep" /\ UNCHANGED <<rt_outcome, rt_value>>
    /\ UNCHANGED <<rt_max_attempts, rt_exponential, rt_jitter, rt_attempt, rt_slept, rt_sleeps>>
    /\ UNCHANGED rtOthers

\* lines 121-131: the delay is computed and slept; the loop goes on, or
\* range(max_attempts) is used up and last_exception is raised
RtSleep(j) ==
    /\ rt_pc = "sleep"
    /\ IF rt_jitter THEN j \in JitterPercents ELSE j = 100
    /\ rt_slept' = current_delay(rt_attempt, rt_exponential, j)
    /\ rt_sleeps' = rt_sleeps + 1
    /\ rt_attempt' = rt_attempt + 1
    /\ IF rt_attempt + 1 < rt_max_attempts
       THEN rt_pc' = "call" /\ UNCHANGED <<rt_outcome, rt_value>>
       ELSE rt_outcome' = "raised" /\ rt_value' = rt_last_exception /\ rt_pc' = "done"
    /\ UNCHANGED <<rt_max_attempts, rt_exponential, rt_jitter, rt_last_exception,
                   rt_calls, rt_failed>>
    /\ UNCHANGED rtOthers

RtNext ==
    \/ \E o \in RtOutcomes : RtCall(o)
    \/ \E j \in JitterPercents \cup {100} : RtSleep(j)

(***************************************************************************)
(* Claims about RetryManager (SpecRt).                                     *)
(***************************************************************************)
\* C18: retry_with_backoff is a bounded retry: for max_attempts >= 1 the
\* wrapped function is invoked at most max_attempts times, invocation
\* stops at the first success and returns its result, after max_attempts
\* failures the last exception is re-raised, and a sleep happens only
\* between two attempts, never after the last one.
C18_BoundedRetry ==
    /\ rt_calls <= rt_max_attempts
    /\ rt_outcome = "returned" => (rt_failed = rt_calls - 1 /\ rt_value = rt_calls)
    /\ rt_outcome = "raised" =>
          (rt_failed = rt_max_attempts /\ rt_calls = rt_max_attempts /\ rt_value = rt_calls)
    /\ rt_pc = "call" => (rt_outcome = "none" /\ rt_failed = rt_calls /\ rt_sleeps = rt_calls)
    /\ rt_pc = "sleep" => rt_sleeps = rt_calls - 1
    /\ rt_pc = "done" => rt_sleeps = rt_calls - 1

\* all three attempts failed: two sleeps, the third exception re-raised
C18_Witness ==
    /\ rt_pc = "done" /\ rt_outcome = "raised"
    /\ rt_max_attempts = 3 /\ rt_calls = 3 /\ rt_sleeps = 2 /\ rt_value = 3

(***************************************************************************)
(* Price adapters. RealExchangeProvider has one adapter per exchange       *)
(* (_get_binance_price ... _get_bybit_price); get_price_data keeps a       *)
(* result that is not None and passes _validate_price_data.                *)
(* MultiSourceCryptoProvider has one adapter per aggregator; its           *)
(* get_price_data keeps every result that is a dict.                       *)
(***************************************************************************)
ExchangeAdapters == {"binance", "okx", "kucoin", "gate", "bybit"}

\* sorted_apis: the aggregators by priority
Aggregators == <<"CoinCap", "CoinPaprika", "CoinGecko">>

\* A field of a JSON answer: absent (data[field] raises KeyError), null (float()
\* raises TypeError), a string float() rejects (ValueError), or a number, as a
\* string or not, which float() converts.
FieldValues == {0 - 1, 0, 94, 95, 100}

RawFields ==
    { [kind |-> k, val |-> 0] : k \in {"missing", "null", "text"} }
        \cup { [kind |-> "num", val |-> v] : v \in FieldValues }

(***************************************************************************)
(* _get_binance_price, lines 319-353, and _get_okx_price, lines 365-408:   *)
(* None when a required field is absent or does not convert or a value is  *)
(* not positive; bid and ask are exchanged when ask < bid.                 *)
(***************************************************************************)
_get_binance_price(t) ==
    IF {t.last.kind, t.bid.kind, t.ask.kind} # {"num"} THEN << >>
    ELSE IF t.last.val <= 0 \/ t.bid.val <= 0 \/ t.ask.val <= 0 THEN << >>
    ELSE IF t.ask.val < t.bid.val
         THEN << [price |-> t.last.val, bid |-> t.ask.val, ask |-> t.bid.val] >>
         ELSE << [price |-> t.last.val, bid |-> t.bid.val, ask |-> t.ask.val] >>

(***************************************************************************)
(* _get_kucoin_price, lines 422-434, _get_gate_price, lines 446-458, and   *)
(* _get_bybit_price, lines 470-482: the three fields converted by float()  *)
(* and returned as they are; None when a conversion raises.                *)
(***************************************************************************)
_get_kucoin_price(t) ==
    IF {t.last.kind, t.bid.kind, t.ask.kind} # {"num"} THEN << >>
    ELSE << [price |-> t.last.val, bid |-> t.bid.val, ask |-> t.ask.val] >>

(***************************************************************************)
(* _fetch_coincap_price, lines 175-185: float(asset['priceUsd']); an       *)
(* absent, null or unconvertible field raises, and asyncio.gather with     *)
(* return_exceptions gives the exception, which get_price_data drops.      *)
(***************************************************************************)
_fetch_coincap_price(f) ==
    IF f.kind = "num" THEN << [exchange |-> "CoinCap", price |-> f.val] >> ELSE << >>

(***************************************************************************)
(* _fetch_coinpaprika_price, lines 229-239, and _fetch_coingecko_price,    *)
(* lines 257-267: float(quote.get('price', 0)), so an absent field is the  *)
(* price 0.0.                                                              *)
(***************************************************************************)
_fetch_coinpaprika_price(source, f) ==
    IF f.kind = "missing" THEN << [exchange |-> source, price |-> 0] >>
    ELSE IF f.kind = "num" THEN << [exchange |-> source, price |-> f.val] >>
    ELSE << >>

NoTicker == [last |-> [kind |-> "missing", val |-> 0],
             bid  |-> [kind |-> "missing", val |-> 0],
             ask  |-> [kind |-> "missing", val |-> 0]]

NoAssets == [k \in 1..Len(Aggregators) |-> [kind |-> "missing", val |-> 0]]

AdIdle ==
    /\ ad_provider = "binance"
    /\ ad_ticker = NoTicker
    /\ ad_assets = NoAssets
    /\ ad_pc = "idle"
    /\ ad_result = << >>
    /\ ad_price_data = << >>
    /\ ad_raised = FALSE

\* any answer of one exchange, or any answers of the three aggregators
AdInit ==
    /\ ad_provider \in ExchangeAdapters \cup {"multi"}
    /\ IF ad_provider = "multi"
       THEN /\ ad_ticker = NoTicker
            /\ ad_assets \in [1..Len(Aggregators) -> RawFields]
       ELSE /\ ad_ticker \in [last : RawFields, bid : RawFields, ask : RawFields]
            /\ ad_assets = NoAssets
    /\ ad_pc = "fetch"
    /\ ad_result = << >>
    /\ ad_price_data = << >>
    /\ ad_raised = FALSE

(***************************************************************************)
(* RealExchangeProvider.get_price_data for one exchange whose request was  *)
(* answered, lines 558-606: the adapter's result is kept when it is not    *)
(* None and _validate_price_data accepts it. (With nothing kept the        *)
(* synthetic set is returned; see the fan-out part.) exchange_methods,     *)
(* lines 550-556, names the adapter.                                       *)
(***************************************************************************)
AdExchangeGet ==
    /\ ad_pc = "fetch" /\ ad_provider \in ExchangeAdapters
    /\ LET result == IF ad_provider \in {"binance", "okx"}
                     THEN _get_binance_price(ad_ticker)
                     ELSE _get_kucoin_price(ad_ticker)
       IN  /\ ad_result' = << result >>
           /\ ad_price_data' =
                 IF result # << >> /\ _validate_price_data(result[1])
                 THEN << [exchange |-> ad_provider, price |-> result[1].price,
                          bid |-> result[1].bid, ask |-> result[1].ask] >>
                 ELSE << >>
    /\ ad_pc' = "done"
    /\ UNCHANGED <<ad_provider, ad_ticker, ad_assets, ad_raised>>
    /\ UNCHANGED adOthers

(***************************************************************************)
(* MultiSourceCryptoProvider.calculate_arbitrage_opportunities, lines      *)
(* 329-363. get_price_data, lines 281-312, gathers the adapters in         *)
(* priority order, keeps the results that are dicts and, when none is,     *)
(* returns _generate_mock_price_data for every source (base_price *        *)
(* (1 + variation), |variation| <= 0.02, a positive price). The loop over  *)
(* the pairs then evaluates profit_abs / price1 when price2 > price1       *)
(* (lines 346-348), which raises ZeroDivisionError when price1 is 0.       *)
(***************************************************************************)
AdMultiCalculate ==
    /\ ad_pc = "fetch" /\ ad_provider = "multi"
    /\ LET results == [k \in 1..Len(Aggregators) |->
                          IF Aggregators[k] = "CoinCap"
                          THEN _fetch_coincap_price(ad_assets[k])
                          ELSE _fetch_coinpaprika_price(Aggregators[k], ad_assets[k])]
           mock_data == [k \in 1..Len(Aggregators) |->
                            [exchange |-> Aggregators[k], price |-> 100]]
           valid_results == IF Flatten(results) = << >> THEN mock_data
                            ELSE Flatten(results)
       IN  /\ ad_result' = results
           /\ ad_price_data' = valid_results
           /\ ad_raised' = \E i, j \in 1..Len(valid_results) :
                               /\ i < j
                               /\ valid_results[j].price > valid_results[i].price
                               /\ valid_results[i].price = 0
    /\ ad_pc' = "done"
    /\ UNCHANGED <<ad_provider, ad_ticker, ad_assets>>
    /\ UNCHANGED adOthers

AdNext == AdExchangeGet \/ AdMultiCalculate

(***************************************************************************)
(* C21. Every real quote returned by RealExchangeProvider.get_price_data   *)
(* has ask >= bid, whichever exchange adapter produced it: an answer with  *)
(* ask < bid is swapped or rejected, never passed through.                 *)
(***************************************************************************)
C21_AskNotBelowBid ==
    (ad_pc = "done" /\ ad_provider \in ExchangeAdapters)
        => \A k \in 1..Len(ad_price_data) :
               ad_price_data[k].ask >= ad_price_data[k].bid

(***************************************************************************)
(* C22. No quote whose price is missing, non-numeric or not positive       *)
(* enters a QuoteSet a calculator uses, for the exchange adapters and the  *)
(* aggregator adapters alike, so that profit_pct is never computed with a  *)
(* zero buy price.                                                         *)
(***************************************************************************)
C22_PositivePrices ==
    ad_pc = "done"
        => /\ \A k \in 1..Len(ad_price_data) : ad_price_data[k].price > 0
           /\ ~ad_raised

C29_FanOutSkipsOpen ==
    /\ \A e \in ExchangeIds :
          fan_failures[e] >= BreakerThreshold
              => fan_reqs[e] = 0 /\ fan_result[e] = "skipped"
    /\ (fan_pc = "done" /\ \A e \in ExchangeIds : fan_failures[e] >= BreakerThreshold)
          => AllSynthetic(fan_returned) /\ \A e \in ExchangeIds : fan_reqs[e] = 0

(***************************************************************************)
(* C30. After an HTTP 403 or 451 _make_request_with_retry sends no further *)
(* request during that call, neither to a backup URL nor in a later        *)
(* attempt.                                                                *)
(***************************************************************************)
C30_NoRequestAfterBlock == ~rq_after_block

(***************************************************************************)
(* The rate-limit gate: _check_rate_limit (lines 209-222) as               *)
(* _make_request_with_retry uses it (lines 263-301). Time is in hundredths *)
(* of a second.                                                            *)
(***************************************************************************)
\* exchanges[exchange_id]['rate_limit'], lines 72, 84, 108: 0.1, 0.2, 0.3 s
rate_limit(exchange_id) ==
    CASE exchange_id = "binance" -> 10
      [] exchange_id = "okx"     -> 20
      [] OTHER                   -> 30

\* _check_rate_limit, line 218: what it returns
_check_rate_limit(exchange_id, current_time, last_request) ==
    ~(current_time - last_request < rate_limit(exchange_id))

\* what one session.get ends in, and how long it takes: a refused connection
\* or a quick error page, or a slow answer
RlResponses == {"200", "429", "403", "error"}

RlDurations == {1, 50}

RlIdle ==
    /\ rl_exchange = "binance"
    /\ rl_now = 0 /\ last_request_time = 0
    /\ rl_pc = "idle" /\ rl_attempt = 0 /\ rl_url = 1
    /\ rl_prev_sent = NoTime /\ rl_last_sent = NoTime

\* a call on a provider that has not yet sent a request to the exchange:
\* last_request_time.get(exchange_id, 0), and time.time() is far from 0
RlInit ==
    /\ rl_exchange \in ExchangeIds
    /\ rl_now = 100 /\ last_request_time = 0
    /\ rl_pc = "gate" /\ rl_attempt = 0 /\ rl_url = 1
    /\ rl_prev_sent = NoTime /\ rl_last_sent = NoTime

\* lines 265-271: the gate, the sleep when it refuses, and the request
RlSend ==
    /\ rl_pc = "gate"
    /\ IF _check_rate_limit(rl_exchange, rl_now, last_request_time)
       THEN /\ last_request_time' = rl_now
            /\ rl_now' = rl_now
       ELSE /\ rl_now' = rl_now + rate_limit(rl_exchange)
            /\ UNCHANGED last_request_time
    /\ rl_prev_sent' = rl_last_sent
    /\ rl_last_sent' = rl_now'
    /\ rl_pc' = "wait"
    /\ UNCHANGED <<rl_exchange, rl_attempt, rl_url>>
    /\ UNCHANGED rlOthers

\* lines 274-301: the answer after d hundredths of a second, the sleeps and
\* the step of the loops. A 429 sleeps min(60, 2 ** attempt) seconds (line
\* 285); every answer but 200, 403 and 451 is followed, before the last
\* attempt, by a sleep of min(10, 2 ** attempt) seconds (lines 300-301).
RlRespond(r, d) ==
    /\ rl_pc = "wait"
    /\ LET lastUrl == r = "403" \/ rl_url = NumUrlsToTry(rl_exchange)
           backoff == IF rl_attempt = 0 THEN 100 ELSE IF rl_attempt = 1 THEN 200 ELSE 400
           slept   == (IF r = "429" THEN backoff ELSE 0)
                      + (IF r # "403" /\ rl_attempt < max_retries - 1 THEN backoff ELSE 0)
       IN  IF r = "200" \/ (lastUrl /\ rl_attempt = max_retries - 1)
           THEN /\ rl_pc' = "done"
                /\ rl_now' = rl_now + d + (IF r = "200" THEN 0 ELSE slept)
                /\ UNCHANGED <<rl_attempt, rl_url>>
           ELSE /\ rl_pc' = "gate"
                /\ rl_now' = rl_now + d + slept
                /\ rl_attempt' = IF lastUrl THEN rl_attempt + 1 ELSE rl_attempt
                /\ rl_url' = IF lastUrl THEN 1 ELSE rl_url + 1
    /\ UNCHANGED <<rl_exchange, last_request_time, rl_prev_sent, rl_last_sent>>
    /\ UNCHANGED rlOthers

RlNext ==
    \/ RlSend
    \/ \E r \in RlResponses, d \in RlDurations : RlRespond(r, d)

(***************************************************************************)
(* C23. Any two HTTP requests to the same exchange are at least rate_limit *)
(* apart, the retries and the backup-URL requests inside one               *)
(* _make_request_with_retry call included.                                 *)
(***************************************************************************)
C23_RequestsSpaced ==
    rl_prev_sent # NoTime
        => rl_last_sent - rl_prev_sent >= rate_limit(rl_exchange)

(***************************************************************************)
(* RealDataService.get_real_arbitrage_opportunities (lines 197-308) and    *)
(* get_real_market_data (lines 114-195) as sequences of provider calls,    *)
(* each of which returns some items or raises.                             *)
(***************************************************************************)
MaxSymbols == 3

\* what a provider call contributes: no item, one, or five (at five the
\* multi-source stage is skipped, line 236)
SeYields == {0, 1, 5}

\* (mutant) the call of the real-exchange provider is outside the try
Handler_bare(getter, stage) ==
    IF stage = "real" THEN "none"
    ELSE IF getter = "arbitrage" /\ stage \in {"multi", "ccxt"} THEN "inner" ELSE "outer"

(***************************************************************************)
(* The try statement around a provider call. Both getters wrap everything  *)
(* after the cache read in try ... except Exception (lines 121-195 and     *)
(* 204-308); in get_real_arbitrage_opportunities the calls inside the      *)
(* loops over SYMBOLS have a try of their own (lines 240-267, 273-297).    *)
(***************************************************************************)
Handler(getter, stage) ==
    IF getter = "arbitrage" /\ stage \in {"multi", "ccxt"} THEN "inner" ELSE "outer"

SeIdle ==
    /\ se_getter = "arbitrage" /\ se_has_ccxt = FALSE /\ se_cached = 0
    /\ se_pc = "idle" /\ se_symbol = 1 /\ se_opps = 0
    /\ se_returned = NoTime /\ se_propagated = FALSE
    /\ se_raised = FALSE /\ se_logged = FALSE

SeInit ==
    /\ se_getter \in {"arbitrage", "market"}
    /\ se_has_ccxt \in BOOLEAN
    /\ se_cached \in {0, 1}
    /\ se_pc = "cache" /\ se_symbol = 1 /\ se_opps = 0
    /\ se_returned = NoTime /\ se_propagated = FALSE
    /\ se_raised = FALSE /\ se_logged = FALSE

\* lines 116-119, 199-202: a cached list that is not empty is returned
SeCache ==
    /\ se_pc = "cache"
    /\ IF se_cached > 0
       THEN se_pc' = "done" /\ se_returned' = se_cached
       ELSE se_pc' = "real" /\ UNCHANGED se_returned
    /\ UNCHANGED <<se_getter, se_has_ccxt, se_cached, se_symbol, se_opps,
                   se_propagated, se_raised, se_logged>>
    /\ UNCHANGED seOthers

\* the getter goes on after a provider call that added n items
SeContinue(n) ==
    LET total == se_opps + n
        return(k) == se_pc' = "done" /\ se_returned' = k /\ se_symbol' = se_symbol
        goto(st)  == se_pc' = st /\ se_symbol' = 1 /\ UNCHANGED se_returned
        more      == /\ se_pc' = se_pc /\ se_symbol' = se_symbol + 1
                     /\ UNCHANGED se_returned
    IN  /\ se_opps' = total
        /\ IF se_getter = "arbitrage"
           THEN \* lines 236, 269, 301-304
                CASE se_pc = "real" ->
                        IF total < 5 THEN goto("multi") ELSE return(Min(total, 20))
                  [] se_pc = "multi" ->
                        IF se_symbol < MaxSymbols THEN more
                        ELSE IF total = 0 /\ se_has_ccxt THEN goto("ccxt")
                        ELSE return(Min(total, 20))
                  [] OTHER ->
                        IF se_symbol < MaxSymbols THEN more ELSE return(Min(total, 20))
           ELSE \* lines 140-142, 162-164, 167, 185-191
                CASE se_pc = "real" -> IF n > 0 THEN return(n) ELSE goto("multi")
                  [] se_pc = "multi" ->
                        IF n > 0 THEN return(n)
                        ELSE IF se_has_ccxt THEN goto("ccxt") ELSE return(0)
                  [] OTHER -> return(n)

\* a provider call returns
SeGive(n) ==
    /\ se_pc \in {"real", "multi", "ccxt"}
    /\ SeContinue(n)
    /\ UNCHANGED <<se_getter, se_has_ccxt, se_cached, se_propagated, se_raised, se_logged>>
    /\ UNCHANGED seOthers

\* a provider call raises: the loop's handler logs it and goes on to the
\* next symbol (lines 265-267, 295-297); the getter's handler logs it and
\* returns [] (lines 193-195, 306-308)
SeRaise ==
    /\ se_pc \in {"real", "multi", "ccxt"}
    /\ se_raised' = TRUE
    /\ LET handler == Handler(se_getter, se_pc)
       IN  CASE handler = "inner" ->
                   /\ SeContinue(0)
                   /\ se_logged' = TRUE
                   /\ UNCHANGED se_propagated
             [] handler = "outer" ->
                   /\ se_pc' = "done" /\ se_returned' = 0
                   /\ se_logged' = TRUE
                   /\ UNCHANGED <<se_symbol, se_opps, se_propagated>>
             [] OTHER ->
                   /\ se_pc' = "done" /\ se_propagated' = TRUE
                   /\ UNCHANGED <<se_symbol, se_opps, se_returned, se_logged>>
    /\ UNCHANGED <<se_getter, se_has_ccxt, se_cached>>
    /\ UNCHANGED seOthers

SeNext ==
    \/ SeCache
    \/ \E n \in SeYields : SeGive(n)
    \/ SeRaise

(***************************************************************************)
(* C24. get_real_arbitrage_opportunities and get_real_market_data never    *)
(* let an exception out: whatever a provider raises, it is logged and a    *)
(* list, possibly empty, is returned.                                      *)
(***************************************************************************)
C24_AlwaysAList ==
    se_pc = "done"
        => /\ ~se_propagated
           /\ se_returned # NoTime
           /\ (se_raised => se_logged)

\* the real-exchange provider raised, the getter returned []
C24_Witness ==
    /\ se_pc = "done" /\ se_raised /\ se_logged
    /\ se_opps = 0 /\ se_symbol = 1 /\ se_returned = 0 /\ se_cached = 0

(***************************************************************************)
(* The service list on long provider lists. get_arbitrage_opportunities of *)
(* the real-exchange provider concatenates the lists of all its symbols    *)
(* (lines 719-735), so the service receives lists of any length in any     *)
(* order.                                                                  *)
(***************************************************************************)
MaxOpps == 22

\* the k-th opportunity of a provider: bought at 1000, sold 0 to 28 above,
\* in an order that depends on the seed
TopOpp(provider, k, seed) ==
    LET sell_price == 1000 + ((k * seed) % 29)
    IN  [buy_source |-> k, sell_source |-> provider,
         buy_price |-> 1000, sell_price |-> sell_price,
         profit_abs |-> sell_price - 1000, profit_pct |-> Pct(1000, sell_price)]

\* lists of no, 4 or MaxOpps opportunities
TopLists(provider) ==
    { [k \in 1..n |-> TopOpp(provider, k, seed)] : n \in {0, 4, MaxOpps}, seed \in {3, 5, 7} }

\* the providers have answered; get_real_arbitrage_opportunities builds its list
TopInit ==
    /\ min_profit_threshold = 1
    /\ price_data_synthetic = FALSE
    /\ price_data = <<>>
    /\ ccxt_available \in BOOLEAN
    /\ real_opps \in TopLists(1)
    /\ multi_opps \in TopLists(2)
    /\ ccxt_opps \in TopLists(3)
    /\ svc_opps = None
    /\ calc_pc = "ccxt"

TopNext == ServiceCalc

\* the opportunities the service collected: those above 0.1 % of the real
\* provider, of the multi-source provider when the former are fewer than 5,
\* of CCXT when there is none and CCXT is available
TopAbove(opps) ==
    { ToArbitrageOpportunity(opps[k]) :
        k \in { i \in 1..Len(opps) : opps[i].profit_pct.num * 10 > opps[i].profit_pct.den } }

TopFound ==
    LET fromReal  == TopAbove(real_opps)
        withMulti == IF Cardinality(fromReal) < 5
                     THEN fromReal \cup TopAbove(multi_opps) ELSE fromReal
    IN  IF withMulti = {} /\ ccxt_available THEN TopAbove(ccxt_opps) ELSE withMulti

(***************************************************************************)
(* C25. The list get_real_arbitrage_opportunities returns is sorted by     *)
(* profit, non-increasing, and holds the highest-profit opportunities      *)
(* found, at most 20, whichever providers contributed.                     *)
(***************************************************************************)
C25_TopTwentySorted ==
    calc_pc = "done" =>
        /\ Len(svc_opps) = Min(20, Cardinality(TopFound))
        /\ \A k \in 1..Len(svc_opps) : svc_opps[k] \in TopFound
        /\ \A k \in 1..(Len(svc_opps) - 1) :
               svc_opps[k].profit_pct.num * svc_opps[k + 1].profit_pct.den
                   >= svc_opps[k + 1].profit_pct.num * svc_opps[k].profit_pct.den
        /\ \A o \in TopFound :
               (\A k \in 1..Len(svc_opps) : svc_opps[k] # o)
                   => o.profit_pct.num * svc_opps[Len(svc_opps)].profit_pct.den
                          <= svc_opps[Len(svc_opps)].profit_pct.num * o.profit_pct.den

\* more than 20 opportunities of the real provider are above 0.1 %, the 20
\* best are returned
C25_Witness ==
    /\ calc_pc = "done" /\ Len(svc_opps) = 20
    /\ Len(real_opps) = MaxOpps
    /\ Cardinality(TopFound) > 20
    /\ \E k \in 1..Len(svc_opps) : svc_opps[k].sell_exchange = 1

(***************************************************************************)
(* Repeated calls of RealExchangeProvider.get_arbitrage_opportunities for  *)
(* one symbol (lines 719-735): calculate_arbitrage_opportunities reads the *)
(* QuoteSet through get_price_data, which returns the cached one while it  *)
(* is valid and otherwise fetches and caches a new one.                    *)
(***************************************************************************)
IdMaxCalls == 2

IdMaxTime == 2

\* what a fan-out may give: quotes 100/101 and 103/104 of two sources
IdQuoteSets ==
    { pd \in QuoteSetsOf({ [bid |-> 100, ask |-> 101, price |-> 100],
                           [bid |-> 103, ask |-> 104, price |-> 103] }) :
        Len(pd) = 2 /\ pd[1].exchange < pd[2].exchange }

\* lines 728-730: opp['buy_exchange'] = opp.pop('buy_source') and the same
\* for sell_source, on the dicts calculate_arbitrage_opportunities built
RenameSources(opps) ==
    [k \in 1..Len(opps) |->
        [buy_exchange |-> opps[k].buy_source, sell_exchange |-> opps[k].sell_source,
         buy_price |-> opps[k].buy_price, sell_price |-> opps[k].sell_price,
         profit_pct |-> opps[k].profit_pct]]

IdIdle ==
    /\ id_now = 0 /\ id_cache = << >> /\ id_calls = 0
    /\ id_prev_opps = << >> /\ id_last_opps = << >>
    /\ id_prev_data = << >> /\ id_prev_stamp = NoTime /\ id_last_time = NoTime

IdInit == IdIdle

IdTick ==
    /\ id_now < IdMaxTime
    /\ id_now' = id_now + 1
    /\ UNCHANGED <<id_cache, id_calls, id_prev_opps, id_last_opps, id_prev_data,
                   id_prev_stamp, id_last_time>>
    /\ UNCHANGED idOthers

\* one call; fetched is the QuoteSet a fan-out would give now. The
\* calculation and the renaming write to no quote (lines 651-694, 728-730).
IdCall(fetched) ==
    /\ id_calls < IdMaxCalls
    /\ id_calls' = id_calls + 1
    /\ id_cache' = IF _is_cache_valid(id_cache, id_now) THEN id_cache
                   ELSE << [data |-> fetched, timestamp |-> id_now] >>
    /\ id_last_opps' = RenameSources(RealCalculate(id_cache'[1].data))
    /\ id_prev_opps' = id_last_opps
    /\ id_prev_data' = IF id_cache = << >> THEN << >> ELSE id_cache[1].data
    /\ id_prev_stamp' = IF id_cache = << >> THEN NoTime ELSE id_cache[1].timestamp
    /\ id_last_time' = id_now
    /\ UNCHANGED id_now
    /\ UNCHANGED idOthers

IdNext ==
    \/ IdTick
    \/ \E fetched \in IdQuoteSets : IdCall(fetched)

max_concurrent == 3

MaxTickerTasks == 4

TickerTasks == 1..MaxTickerTasks

\* (mutant) the semaphore never blocks
locked_never(value) == FALSE

\* asyncio.Semaphore.locked: acquire waits while the value is 0
locked(value) == value = 0

SemIdle ==
    /\ sem_tasks = 0 /\ sem_value = max_concurrent
    /\ sem_task = [t \in TickerTasks |-> "absent"]
    /\ sem_pc = "idle" /\ sem_returned = NoTime

\* lines 242, 248-261: the semaphore and the tasks of up to 6 exchanges
SemInit ==
    /\ sem_tasks \in TickerTasks
    /\ sem_value = max_concurrent
    /\ sem_task = [t \in TickerTasks |-> IF t <= sem_tasks THEN "waiting" ELSE "absent"]
    /\ sem_pc = "gather" /\ sem_returned = NoTime

\* line 245: a task enters `async with semaphore` and calls get_ticker_data
SemAcquire(t) ==
    /\ sem_pc = "gather" /\ sem_task[t] = "waiting"
    /\ ~locked(sem_value)
    /\ sem_value' = sem_value - 1
    /\ sem_task' = [sem_task EXCEPT ![t] = "inflight"]
    /\ UNCHANGED <<sem_tasks, sem_pc, sem_returned>>
    /\ UNCHANGED semOthers

\* lines 245-246, 273-282: get_ticker_data returns a ticker or None, or
\* raises; the semaphore is released; when it was the last task the gather
\* ends and the tickers are returned
SemRelease(t, r) ==
    /\ sem_pc = "gather" /\ sem_task[t] = "inflight"
    /\ sem_value' = sem_value + 1
    /\ sem_task' = [sem_task EXCEPT ![t] = r]
    /\ IF \A u \in TickerTasks : sem_task'[u] \in {"absent", "ticker", "none", "raised"}
       THEN /\ sem_pc' = "done"
            /\ sem_returned' = Cardinality({ u \in TickerTasks : sem_task'[u] = "ticker" })
       ELSE UNCHANGED <<sem_pc, sem_returned>>
    /\ UNCHANGED sem_tasks
    /\ UNCHANGED semOthers

\* lines 265-271: the deadline passes; wait_for cancels the gather and with
\* it every task, those inside the semaphore release it; [] is returned
SemTimeout ==
    /\ sem_pc = "gather"
    /\ sem_value' = sem_value + Cardinality({ t \in TickerTasks : sem_task[t] = "inflight" })
    /\ sem_task' = [t \in TickerTasks |->
                       IF sem_task[t] \in {"waiting", "inflight"} THEN "cancelled"
                       ELSE sem_task[t]]
    /\ sem_pc' = "done" /\ sem_returned' = 0
    /\ UNCHANGED sem_tasks
    /\ UNCHANGED semOthers

SemNext ==
    \/ \E t \in TickerTasks : SemAcquire(t)
    \/ \E t \in TickerTasks, r \in {"ticker", "none", "raised"} : SemRelease(t, r)
    \/ SemTimeout

(***************************************************************************)
(* C27. During get_all_tickers at most max_concurrent (3 by default)       *)
(* get_ticker_data calls are in flight at any moment.                      *)
(***************************************************************************)
C27_AtMostMaxConcurrent ==
    Cardinality({ t \in TickerTasks : sem_task[t] = "inflight" }) <= 3

\* three calls are in flight and a fourth task waits for the semaphore
C27_Witness ==
    /\ Cardinality({ t \in TickerTasks : sem_task[t] = "inflight" }) = 3
    /\ \E t \in TickerTasks : sem_task[t] = "waiting"

(***************************************************************************)
(* RealExchangeInfoProvider.get_network_compatibility, lines 335-343, on   *)
(* lists of NetworkInfo (lines 18-28), of which the name and the two       *)
(* enabled flags are read. A list may name a network twice.                *)
(***************************************************************************)
MaxNetworks == 2

NetworkInfos ==
    [name : {"TRC20", "ERC20"}, withdraw_enabled : BOOLEAN, deposit_enabled : BOOLEAN]

NetworkLists == UNION { [1..n -> NetworkInfos] : n \in 0..MaxNetworks }

\* (mutant) the deposit flag is read on both sides
get_network_compatibility_deposit(networks1, networks2) ==
    { networks1[k].name : k \in { i \in 1..Len(networks1) : networks1[i].deposit_enabled } }
        \cap { networks2[k].name : k \in { i \in 1..Len(networks2) : networks2[i].deposit_enabled } }

get_network_compatibility(networks1, networks2) ==
    LET network_names1 ==
            { networks1[k].name : k \in { i \in 1..Len(networks1) : networks1[i].withdraw_enabled } }
        network_names2 ==
            { networks2[k].name : k \in { i \in 1..Len(networks2) : networks2[i].deposit_enabled } }
    IN  network_names1 \cap network_names2

NetIdle ==
    /\ net_networks1 = << >> /\ net_networks2 = << >>
    /\ net_pc = "idle" /\ net_compatible = {}

NetInit ==
    /\ net_networks1 \in NetworkLists /\ net_networks2 \in NetworkLists
    /\ net_pc = "call" /\ net_compatible = {}

NetCall ==
    /\ net_pc = "call"
    /\ net_compatible' = get_network_compatibility(net_networks1, net_networks2)
    /\ net_pc' = "done"
    /\ UNCHANGED <<net_networks1, net_networks2>>
    /\ UNCHANGED netOthers

NetNext == NetCall

(***************************************************************************)
(* C28. get_network_compatibility returns exactly the names of the         *)
(* networks that are withdraw-enabled on the side withdrawn from and       *)
(* deposit-enabled on the side deposited to.                               *)
(***************************************************************************)
C28_ExactlyEnabledCommon ==
    net_pc = "done" =>
        \A name \in {"TRC20", "ERC20"} :
            name \in net_compatible
                <=> /\ \E i \in 1..Len(net_networks1) :
                          net_networks1[i].name = name /\ net_networks1[i].withdraw_enabled
                    /\ \E j \in 1..Len(net_networks2) :
                          net_networks2[j].name = name /\ net_networks2[j].deposit_enabled

\* TRC20 is enabled on both sides and reported; ERC20 is on both lists, but
\* closed for withdrawal at the source, and is not
C28_Witness ==
    /\ net_pc = "done" /\ net_compatible = {"TRC20"}
    /\ \E i \in 1..Len(net_networks1) :
          net_networks1[i].name = "ERC20" /\ ~net_networks1[i].withdraw_enabled
          /\ net_networks1[i].deposit_enabled
    /\ \E j \in 1..Len(net_networks2) :
          net_networks2[j].name = "ERC20" /\ net_networks2[j].deposit_enabled

(***************************************************************************)
(* C31. Every QuoteSet get_price_data returns is homogeneous, also when    *)
(* some sources succeed and others fail: it holds real quotes only or      *)
(* synthetic quotes only.                                                  *)
(***************************************************************************)
C31_Homogeneous ==
    \/ \A q \in fan_returned : q.generated
    \/ \A q \in fan_returned : ~q.generated

\* partial failure: one exchange gave a quote, another exhausted its
\* retries; the QuoteSet holds the one real quote and nothing else
C31_Witness ==
    /\ fan_pc = "done"
    /\ \E e \in ExchangeIds : fan_result[e] = "quote"
    /\ \E e \in ExchangeIds : fan_result[e] = "none" /\ fan_reqs[e] > 0
    /\ Cardinality(fan_returned) = 1
    /\ \A q \in fan_returned : ~q.generated

\* ---------------------------------------------------------------------
\* CircuitBreaker shared by threads (utils/unified_error_handler.py).
\* with_circuit_breaker hands every call of the decorated function to the
\* one breaker of that name, and the pages run such calls from several
\* threads.  call, _on_success and _on_failure take no lock, so the
\* statement `self.failure_count += 1` is a read of the attribute followed
\* by a write of the value read plus one, and another thread may run in
\* between.  th_failed counts the failed calls completed since the last
\* success.
\* ---------------------------------------------------------------------
Threads == {1, 2}

ThIdle ==
    /\ th_state = "CLOSED" /\ th_failure_count = 0 /\ th_last_failure_time = NoTime
    /\ th_now = 0
    /\ th_pc = [t \in Threads |-> "off"]
    /\ th_loaded = [t \in Threads |-> 0]
    /\ th_failed = 0 /\ th_calls = 0

\* __init__, lines 50-55, and the threads that will call
ThInit ==
    /\ th_state = "CLOSED" /\ th_failure_count = 0 /\ th_last_failure_time = NoTime
    /\ th_now = 0
    /\ th_pc = [t \in Threads |-> "idle"]
    /\ th_loaded = [t \in Threads |-> 0]
    /\ th_failed = 0 /\ th_calls = 0

ThTick ==
    /\ th_now < MaxTime
    /\ th_now' = th_now + 1
    /\ UNCHANGED <<th_state, th_failure_count, th_last_failure_time, th_pc, th_loaded,
                   th_failed, th_calls>>
    /\ UNCHANGED thOthers

\* call, lines 59-63, when the breaker refuses
ThReject(t) ==
    /\ th_pc[t] = "idle" /\ th_calls < MaxCalls
    /\ th_state = "OPEN" /\ ~_should_attempt_reset(th_last_failure_time, th_now)
    /\ th_calls' = th_calls + 1
    /\ UNCHANGED <<th_state, th_failure_count, th_last_failure_time, th_now, th_pc,
                   th_loaded, th_failed>>
    /\ UNCHANGED thOthers

\* call, lines 59-66, up to the invocation of func
ThEnter(t) ==
    /\ th_pc[t] = "idle" /\ th_calls < MaxCalls
    /\ th_state = "OPEN" => _should_attempt_reset(th_last_failure_time, th_now)
    /\ th_state' = IF th_state = "OPEN" THEN "HALF_OPEN" ELSE th_state
    /\ th_pc' = [th_pc EXCEPT ![t] = "in_func"]
    /\ th_calls' = th_calls + 1
    /\ UNCHANGED <<th_failure_count, th_last_failure_time, th_now, th_loaded, th_failed>>
    /\ UNCHANGED thOthers

\* call, lines 66-68, and _on_success: two stores of constants
ThReturn(t) ==
    /\ th_pc[t] = "in_func"
    /\ th_failure_count' = _on_success_count(th_failure_count)
    /\ th_state' = _on_success_state(th_state)
    /\ th_pc' = [th_pc EXCEPT ![t] = "idle"]
    /\ th_failed' = 0
    /\ UNCHANGED <<th_last_failure_time, th_now, th_loaded, th_calls>>
    /\ UNCHANGED thOthers

\* call, lines 69-70, and _on_failure, line 86: the read of failure_count
ThLoad(t) ==
    /\ th_pc[t] = "in_func"
    /\ th_loaded' = [th_loaded EXCEPT ![t] = th_failure_count]
    /\ th_pc' = [th_pc EXCEPT ![t] = "loaded"]
    /\ UNCHANGED <<th_state, th_failure_count, th_last_failure_time, th_now, th_failed,
                   th_calls>>
    /\ UNCHANGED thOthers

\* _on_failure, lines 86-90: the write of failure_count, and the rest
ThStore(t) ==
    /\ th_pc[t] = "loaded"
    /\ th_failure_count' = _on_failure_count(th_loaded[t])
    /\ th_last_failure_time' = th_now
    /\ th_state' = _on_failure_state(th_state, th_failure_count')
    /\ th_pc' = [th_pc EXCEPT ![t] = "idle"]
    /\ th_failed' = Min(th_failed + 1, MaxCalls)
    /\ UNCHANGED <<th_now, th_loaded, th_calls>>
    /\ UNCHANGED thOthers

ThNext ==
    \/ ThTick
    \/ \E t \in Threads : ThReject(t)
    \/ \E t \in Threads : ThEnter(t)
    \/ \E t \in Threads : ThReturn(t)
    \/ \E t \in Threads : ThLoad(t)
    \/ \E t \in Threads : ThStore(t)

\* C32: failed calls of concurrent callers are all counted: when no call is
\* in progress, failure_count equals the number of failed calls completed
\* since the last success, and the breaker is OPEN once failure_threshold
\* of them have completed
C32_NoLostUpdate ==
    (\A t \in Threads : th_pc[t] = "idle") =>
        /\ th_failure_count = th_failed
        /\ th_failed >= failure_threshold => th_state = "OPEN"

\* ---------------------------------------------------------------------
\* Termination of _make_request_with_retry.
\* ---------------------------------------------------------------------
\* the place of the pending request in the two loops, counted from 1
RequestIndex == rq_attempt * NumUrlsToTry(rq_exchange) + rq_url

\* C34: _make_request_with_retry always terminates: every request either
\* ends the call, with the payload of a 200 or with None, or is followed by
\* a request further on in the loops, of which there are at most
\* max_retries * (1 + backup URLs); and a call that has begun ends
C34_Terminates ==
    /\ [](rq_pc = "send" =>
             RequestIndex \in 1..(max_retries * NumUrlsToTry(rq_exchange)))
    /\ [][rq_pc = "send" /\ rq_pc' = "send" /\ rep_now' = rep_now =>
             RequestIndex' > RequestIndex]_vars
    /\ [][rq_pc = "send" /\ rq_pc' = "idle" =>
             rq_result' \in {"data", "failed"}]_vars
    /\ [][rq_pc = "send" /\ rq_result' = "failed" =>
             RequestIndex >= (max_retries - 1) * NumUrlsToTry(rq_exchange) + 1]_vars
    /\ (rq_pc = "send" ~> rq_pc = "idle")

\* a call that sent every request the loops allow and returned None
C34_Witness ==
    /\ rq_pc = "idle" /\ rq_result = "failed"
    /\ ~rq_saw_block /\ NumUrlsToTry(rq_exchange) > 1

\* ---------------------------------------------------------------------
\* The breaker's state between the calls of a sequential caller.
\* ---------------------------------------------------------------------
\* C35: with sequential callers, between calls the state is CLOSED or OPEN
\* (HALF_OPEN only while the probe executes), and it is OPEN exactly when
\* failure_count >= failure_threshold
C35_StateMatchesCount ==
    (\A c \in cb_active : cb_pc[c] = "idle") =>
        /\ cb_state \in {"CLOSED", "OPEN"}
        /\ cb_state = "OPEN" <=> failure_count >= failure_threshold

\* between calls, closed by a successful probe and one failure later
C35_Witness ==
    /\ \A c \in cb_active : cb_pc[c] = "idle"
    /\ cb_probe = "closed" /\ cb_state = "CLOSED"
    /\ failure_count = 1 /\ failure_count < failure_threshold

\* ---------------------------------------------------------------------
\* RealExchangeProvider.get_price_data, pass after pass, for one source
\* that answers every request with HTTP 200 and a payload that gives no
\* usable quote.  The passes are those that reach the exchanges (the cache
\* of lines 536-541 has expired) and they follow one another within the
\* breaker's cooldown, so the clock stands at 0.
\* ---------------------------------------------------------------------
MaxPasses == 6

\* the payloads of the passes: the last price absent, zero or 100, bid and
\* ask anything
UpPayloads ==
    [last : { f \in RawFields : f.kind = "missing" \/ (f.kind = "num" /\ f.val \in {0, 100}) },
     bid  : RawFields, ask : RawFields]

\* what the source's adapter makes of the payload
AdapterResult(exchange, t) ==
    IF exchange \in {"binance", "okx"} THEN _get_binance_price(t)
                                       ELSE _get_kucoin_price(t)

\* payloads with no usable quote: a field is missing or not a number, a
\* price is not positive, or the quote fails _validate_price_data
UnusablePayloads(exchange) ==
    { t \in UpPayloads :
        LET result == AdapterResult(exchange, t)
        IN  result = << >> \/ ~_validate_price_data(result[1]) }

UpIdle ==
    /\ up_exchange = "binance" /\ up_failures = 0 /\ up_last_failure = NoTime
    /\ up_passes = 0 /\ up_ticker = NoTicker /\ up_sent = FALSE

\* __init__, lines 142-145, or a breaker that earlier failures just opened
UpInit ==
    /\ up_exchange \in ExchangeAdapters
    /\ up_failures \in {0, BreakerThreshold}
    /\ up_last_failure = IF up_failures = 0 THEN NoTime ELSE 0
    /\ up_passes = 0 /\ up_ticker = NoTicker /\ up_sent = FALSE

\* one pass of get_price_data, lines 558-601, for the source: no task when
\* its breaker is open; else the request, whose 200 records a success
\* (lines 278-281), the adapter, and the processing of the result: a
\* failure is recorded for a dict that fails validation, nothing for None
UpPass(t) ==
    /\ up_passes < MaxPasses
    /\ t \in UnusablePayloads(up_exchange)
    /\ up_passes' = up_passes + 1
    /\ IF _is_circuit_breaker_open(up_failures, up_last_failure, 0)
       THEN /\ up_sent' = FALSE
            /\ UNCHANGED <<up_failures, up_last_failure, up_ticker>>
       ELSE LET result  == AdapterResult(up_exchange, t)
                after200 == _record_success_count(up_failures)
            IN  /\ up_sent' = TRUE
                /\ up_ticker' = t
                /\ up_failures' = IF result = << >> THEN after200
                                  ELSE _record_failure_count(after200)
                /\ up_last_failure' = IF result = << >> THEN up_last_failure ELSE 0
    /\ UNCHANGED up_exchange
    /\ UNCHANGED upOthers

UpNext == \E t \in UpPayloads : UpPass(t)

\* C33: a source that answers every request with an unusable payload is
\* counted as failing: after 5 consecutive passes its breaker is open, and
\* the passes after that skip it
C33_UnusableSourceOpens ==
    /\ up_passes >= BreakerThreshold => up_failures >= BreakerThreshold
    /\ up_passes > BreakerThreshold => ~up_sent

\* ---------------------------------------------------------------------
\* OptimizedAsyncCache (utils/optimized_cache.py) with several keys.
\* get, set, _cleanup_expired and clear hold _lock from beginning to end
\* (lines 78, 95, 132, 158), so each is one step.  _cache is a dict, which
\* keeps insertion order: min() in _evict_lru returns the first of equal
\* minima in that order, and assigning to a stored key keeps its place.
\* The counters hits, misses and cleanups are written and never read by
\* these operations; they are left out.
\* ---------------------------------------------------------------------
max_size == 2

OcMaxTime == 3

OcMaxOps == 5

OcKeys == {"a", "b", "c"}

OcTtls == {1, 2}

KeysOf(cache) == { cache[i].key : i \in 1..Len(cache) }

Without(cache, i) == [j \in 1..(Len(cache) - 1) |-> IF j < i THEN cache[j] ELSE cache[j + 1]]

\* the order of min(): by (access_count, last_access)
LessUsed(e1, e2) ==
    \/ e1.access_count < e2.access_count
    \/ e1.access_count = e2.access_count /\ e1.last_access < e2.last_access

\* _evict_lru, lines 110-114: the place of lru_key
lru_key(cache) ==
    CHOOSE i \in 1..Len(cache) :
        \A j \in 1..Len(cache) : /\ j < i => LessUsed(cache[i], cache[j])
                                 /\ j > i => ~LessUsed(cache[j], cache[i])

\* mutant: set evicts only above max_size
MustEvict_above(cache) == Len(cache) > max_size

\* set, line 97
MustEvict(cache) == Len(cache) >= max_size

\* touch, lines 34-37
touch(entry, now) ==
    [entry EXCEPT !.access_count = @ + 1, !.last_access = now]

\* CacheEntry(value, timestamp=time.time(), ttl): access_count 0, last_access 0
CacheEntry(key, now, t) ==
    [key |-> key, timestamp |-> now, ttl |-> t, access_count |-> 0, last_access |-> 0]

OcIdle ==
    /\ oc_cache = << >> /\ oc_now = 0 /\ oc_evictions = 0
    /\ oc_ops = 0 /\ oc_op = [name |-> "none", key |-> "none"]
    /\ oc_evicted = "none"

\* __init__, lines 43-54
OcInit ==
    /\ oc_cache = << >> /\ oc_now = 0 /\ oc_evictions = 0
    /\ oc_ops = 0 /\ oc_op = [name |-> "none", key |-> "none"]
    /\ oc_evicted = "none"

OcTick ==
    /\ oc_now < OcMaxTime /\ oc_ops < OcMaxOps
    /\ oc_now' = oc_now + 1
    /\ UNCHANGED <<oc_cache, oc_evictions, oc_ops, oc_op, oc_evicted>>
    /\ UNCHANGED ocOthers

\* get, lines 76-91
OcGet(key) ==
    /\ oc_ops < OcMaxOps
    /\ oc_ops' = oc_ops + 1 /\ oc_op' = [name |-> "get", key |-> key]
    /\ IF key \notin KeysOf(oc_cache)
       THEN UNCHANGED oc_cache
       ELSE LET i == CHOOSE j \in 1..Len(oc_cache) : oc_cache[j].key = key
            IN  IF is_expired(oc_cache[i], oc_now)
                THEN oc_cache' = Without(oc_cache, i)
                ELSE oc_cache' = [oc_cache EXCEPT ![i] = touch(@, oc_now)]
    /\ UNCHANGED <<oc_now, oc_evictions, oc_evicted>>
    /\ UNCHANGED ocOthers

\* set, lines 93-104, with _evict_lru, lines 106-117
OcSet(key, t) ==
    /\ oc_ops < OcMaxOps
    /\ oc_ops' = oc_ops + 1 /\ oc_op' = [name |-> "set", key |-> key]
    /\ LET evicts == MustEvict(oc_cache) /\ oc_cache # << >>
           kept   == IF evicts THEN Without(oc_cache, lru_key(oc_cache)) ELSE oc_cache
       IN  /\ oc_evictions' = IF evicts THEN oc_evictions + 1 ELSE oc_evictions
           /\ oc_evicted' = IF evicts THEN oc_cache[lru_key(oc_cache)].key ELSE oc_evicted
           /\ oc_cache' =
                 IF key \in KeysOf(kept)
                 THEN [i \in 1..Len(kept) |->
                          IF kept[i].key = key THEN CacheEntry(key, oc_now, t) ELSE kept[i]]
                 ELSE Append(kept, CacheEntry(key, oc_now, t))
    /\ UNCHANGED oc_now
    /\ UNCHANGED ocOthers

\* _cleanup_expired, lines 130-141
OcCleanup ==
    /\ oc_ops < OcMaxOps
    /\ oc_ops' = oc_ops + 1 /\ oc_op' = [name |-> "cleanup", key |-> "none"]
    /\ oc_cache' = SelectSeq(oc_cache, LAMBDA e : ~is_expired(e, oc_now))
    /\ UNCHANGED <<oc_now, oc_evictions, oc_evicted>>
    /\ UNCHANGED ocOthers

\* clear, lines 156-159
OcClear ==
    /\ oc_ops < OcMaxOps
    /\ oc_ops' = oc_ops + 1 /\ oc_op' = [name |-> "clear", key |-> "none"]
    /\ oc_cache' = << >>
    /\ UNCHANGED <<oc_now, oc_evictions, oc_evicted>>
    /\ UNCHANGED ocOthers

OcNext ==
    \/ OcTick
    \/ \E key \in OcKeys : OcGet(key)
    \/ \E key \in OcKeys, t \in OcTtls : OcSet(key, t)
    \/ OcCleanup
    \/ OcClear

\* C36: the cache never holds more than max_size entries, whatever the
\* sequence of set, get, _cleanup_expired and clear, and each eviction
\* removes an entry with the smallest (access_count, last_access)
C36_BoundedLeastUsedEvicted ==
    /\ [](Len(oc_cache) <= max_size)
    /\ [][oc_evictions' # oc_evictions =>
             /\ oc_evictions' = oc_evictions + 1
             /\ \E i \in 1..Len(oc_cache) :
                   /\ oc_cache[i].key = oc_evicted'
                   /\ \A j \in 1..Len(oc_cache) : ~LessUsed(oc_cache[j], oc_cache[i])
                   /\ \/ oc_evicted' \notin KeysOf(oc_cache')
                      \/ oc_evicted' = oc_op'.key]_vars

\* a full cache whose entries differ in use, after an eviction
C36_Witness ==
    /\ Len(oc_cache) = max_size /\ oc_evictions > 0
    /\ oc_op.name = "set" /\ oc_evicted \notin KeysOf(oc_cache)
    /\ \E i \in 1..Len(oc_cache) : oc_cache[i].access_count > 0

\* C37: set on a key already stored only replaces that key's entry: no other
\* key is removed and the evictions counter does not change, also when the
\* cache holds max_size entries
C37_SetExistingOnlyReplaces ==
    [][oc_ops' = oc_ops + 1 /\ oc_op'.name = "set" /\ oc_op'.key \in KeysOf(oc_cache) =>
          /\ KeysOf(oc_cache') = KeysOf(oc_cache)
          /\ oc_evictions' = oc_evictions]_vars

\* ---------------------------------------------------------------------
\* The HTTP session of a provider and the `async with provider` blocks
\* around it.  RealExchangeProvider (real_exchange_provider.py lines
\* 159-187) is entered by get_real_data (real_data_service.py line 626)
\* and, inside that block, again by get_real_market_data (line 124) and
\* get_real_arbitrage_opportunities (line 209).  MultiSourceCryptoProvider
\* (multi_source_crypto_provider.py lines 81-92) is entered by the service
\* (lines 145, 237, 584) and by its own get_price_data (line 274).
\* session.get on None raises AttributeError and on a closed ClientSession
\* RuntimeError; both are caught where the request is made and logged.
\* ---------------------------------------------------------------------
MaxDepth == 2

SsMaxCalls == 8

\* what session.get meets
GetOutcome(session) ==
    CASE session = "open"   -> "sent"
      [] session = "closed" -> "closed_session"
      [] OTHER              -> "no_session"

\* __aenter__: RealExchangeProvider makes a session when it has none,
\* MultiSourceCryptoProvider makes a new one every time
__aenter__(provider, session) ==
    IF provider = "real" /\ session # "None" THEN session ELSE "open"

\* __aexit__: both close the session they have; RealExchangeProvider then
\* sets self.session = None, MultiSourceCryptoProvider keeps the closed one
__aexit__(provider, session) ==
    IF session = "None" THEN "None"
    ELSE IF provider = "real" THEN "None" ELSE "closed"

SsIdle ==
    /\ ss_provider = "real" /\ ss_session = "None" /\ ss_depth = 0
    /\ ss_outcome = "none" /\ ss_exited = FALSE /\ ss_calls = 0

\* __init__: self.session = None
SsInit ==
    /\ ss_provider \in {"real", "multi"}
    /\ ss_session = "None" /\ ss_depth = 0
    /\ ss_outcome = "none" /\ ss_exited = FALSE /\ ss_calls = 0

\* the beginning of an `async with provider` block
SsEnter ==
    /\ ss_calls < SsMaxCalls /\ ss_depth < MaxDepth
    /\ ss_session' = __aenter__(ss_provider, ss_session)
    /\ ss_depth' = ss_depth + 1
    /\ ss_calls' = ss_calls + 1
    /\ UNCHANGED <<ss_provider, ss_outcome, ss_exited>>
    /\ UNCHANGED ssOthers

\* the end of an `async with provider` block
SsExit ==
    /\ ss_calls < SsMaxCalls /\ ss_depth > 0
    /\ ss_session' = __aexit__(ss_provider, ss_session)
    /\ ss_depth' = ss_depth - 1
    /\ ss_exited' = TRUE
    /\ ss_calls' = ss_calls + 1
    /\ UNCHANGED <<ss_provider, ss_outcome>>
    /\ UNCHANGED ssOthers

\* RealExchangeProvider._make_request_with_retry, line 272, called inside
\* a block: one session.get
SsRequest ==
    /\ ss_calls < SsMaxCalls /\ ss_provider = "real" /\ ss_depth > 0
    /\ ss_outcome' = GetOutcome(ss_session)
    /\ ss_calls' = ss_calls + 1
    /\ UNCHANGED <<ss_provider, ss_session, ss_depth, ss_exited>>
    /\ UNCHANGED ssOthers

\* MultiSourceCryptoProvider.get_price_data, lines 271-312, inside a block
\* or not: with `not self.session` it enters a block of its own around the
\* call (lines 273-275); the session.get is that of _make_request, line 153
SsGetPriceData ==
    /\ ss_calls < SsMaxCalls /\ ss_provider = "multi"
    /\ IF ss_session = "None"
       THEN LET own == __aenter__(ss_provider, ss_session)
            IN  /\ ss_outcome' = GetOutcome(own)
                /\ ss_session' = __aexit__(ss_provider, own)
                /\ ss_exited' = TRUE
       ELSE /\ ss_outcome' = GetOutcome(ss_session)
            /\ UNCHANGED <<ss_session, ss_exited>>
    /\ ss_calls' = ss_calls + 1
    /\ UNCHANGED <<ss_provider, ss_depth>>
    /\ UNCHANGED ssOthers

SsNext ==
    \/ SsEnter
    \/ SsExit
    \/ SsRequest
    \/ SsGetPriceData

\* C38: RealExchangeProvider's session stays open while any `async with
\* provider` block is active: leaving an inner block neither closes nor
\* clears the session of the block around it, and no request inside a
\* block finds the session gone
C38_SessionOpenInBlock ==
    ss_provider = "real" =>
        /\ ss_depth > 0 => ss_session = "open"
        /\ ss_outcome \in {"none", "sent"}

\* C39: MultiSourceCryptoProvider never sends a request on a closed
\* session: get_price_data with no block active opens a session for
\* itself, also after an earlier block has been left
C39_NoRequestOnClosedSession ==
    ss_provider = "multi" => ss_outcome \in {"none", "sent"}

(***************************************************************************)
(* Specifications, one per part.                                           *)
(***************************************************************************)
InitCalc == CalcInit /\ CBIdle /\ RepIdle /\ CacheIdle /\ SvcIdle /\ FanIdle /\ RtIdle /\ AdIdle /\ RlIdle /\ SeIdle /\ IdIdle /\ SemIdle /\ NetIdle /\ ThIdle /\ UpIdle /\ OcIdle /\ SsIdle

SpecCalc == InitCalc /\ [][CalcNext]_vars

InitCB == CBInit /\ CalcIdle /\ RepIdle /\ CacheIdle /\ SvcIdle /\ FanIdle /\ RtIdle /\ AdIdle /\ RlIdle /\ SeIdle /\ IdIdle /\ SemIdle /\ NetIdle /\ ThIdle /\ UpIdle /\ OcIdle /\ SsIdle

SpecCB == InitCB /\ [][CBNext]_vars

InitREP == RepInit /\ CalcIdle /\ CBIdle /\ CacheIdle /\ SvcIdle /\ FanIdle /\ RtIdle /\ AdIdle /\ RlIdle /\ SeIdle /\ IdIdle /\ SemIdle /\ NetIdle /\ ThIdle /\ UpIdle /\ OcIdle /\ SsIdle

SpecREP == InitREP /\ [][RepNext]_vars

InitCache == CacheInit /\ CalcIdle /\ CBIdle /\ RepIdle /\ SvcIdle /\ FanIdle /\ RtIdle /\ AdIdle /\ RlIdle /\ SeIdle /\ IdIdle /\ SemIdle /\ NetIdle /\ ThIdle /\ UpIdle /\ OcIdle /\ SsIdle

SpecCache == InitCache /\ [][CacheNext]_vars

InitSvc == SvcInit /\ CalcIdle /\ CBIdle /\ RepIdle /\ CacheIdle /\ FanIdle /\ RtIdle /\ AdIdle /\ RlIdle /\ SeIdle /\ IdIdle /\ SemIdle /\ NetIdle /\ ThIdle /\ UpIdle /\ OcIdle /\ SsIdle

SpecSvc == InitSvc /\ [][SvcNext]_vars

InitFan == FanInit /\ CalcIdle /\ CBIdle /\ RepIdle /\ CacheIdle /\ SvcIdle /\ RtIdle /\ AdIdle /\ RlIdle /\ SeIdle /\ IdIdle /\ SemIdle /\ NetIdle /\ ThIdle /\ UpIdle /\ OcIdle /\ SsIdle

SpecFan == InitFan /\ [][FanNext]_vars

InitThr == ThrInit /\ CBIdle /\ RepIdle /\ CacheIdle /\ SvcIdle /\ FanIdle /\ RtIdle /\ AdIdle /\ RlIdle /\ SeIdle /\ IdIdle /\ SemIdle /\ NetIdle /\ ThIdle /\ UpIdle /\ OcIdle /\ SsIdle

SpecThr == InitThr /\ [][CalcNext]_vars

InitRt == RtInit /\ CalcIdle /\ CBIdle /\ RepIdle /\ CacheIdle /\ SvcIdle /\ FanIdle /\ AdIdle /\ RlIdle /\ SeIdle /\ IdIdle /\ SemIdle /\ NetIdle /\ ThIdle /\ UpIdle /\ OcIdle /\ SsIdle

SpecRt == InitRt /\ [][RtNext]_vars

InitAd == AdInit /\ CalcIdle /\ CBIdle /\ RepIdle /\ CacheIdle /\ SvcIdle /\ FanIdle /\ RtIdle /\ RlIdle /\ SeIdle /\ IdIdle /\ SemIdle /\ NetIdle /\ ThIdle /\ UpIdle /\ OcIdle /\ SsIdle

SpecAd == InitAd /\ [][AdNext]_vars

InitRl == RlInit /\ CalcIdle /\ CBIdle /\ RepIdle /\ CacheIdle /\ SvcIdle /\ FanIdle /\ RtIdle /\ AdIdle /\ SeIdle /\ IdIdle /\ SemIdle /\ NetIdle /\ ThIdle /\ UpIdle /\ OcIdle /\ SsIdle

SpecRl == InitRl /\ [][RlNext]_vars

InitSe == SeInit /\ CalcIdle /\ CBIdle /\ RepIdle /\ CacheIdle /\ SvcIdle /\ FanIdle /\ RtIdle /\ AdIdle /\ RlIdle /\ IdIdle /\ SemIdle /\ NetIdle /\ ThIdle /\ UpIdle /\ OcIdle /\ SsIdle

SpecSe == InitSe /\ [][SeNext]_vars

InitTop == TopInit /\ CBIdle /\ RepIdle /\ CacheIdle /\ SvcIdle /\ FanIdle /\ RtIdle /\ AdIdle /\ RlIdle /\ SeIdle /\ IdIdle /\ SemIdle /\ NetIdle /\ ThIdle /\ UpIdle /\ OcIdle /\ SsIdle

SpecTop == InitTop /\ [][TopNext]_vars

InitId == IdInit /\ CalcIdle /\ CBIdle /\ RepIdle /\ CacheIdle /\ SvcIdle /\ FanIdle /\ RtIdle /\ AdIdle /\ RlIdle /\ SeIdle /\ SemIdle /\ NetIdle /\ ThIdle /\ UpIdle /\ OcIdle /\ SsIdle

SpecId == InitId /\ [][IdNext]_vars

InitSem == SemInit /\ CalcIdle /\ CBIdle /\ RepIdle /\ CacheIdle /\ SvcIdle /\ FanIdle /\ RtIdle /\ AdIdle /\ RlIdle /\ SeIdle /\ IdIdle /\ NetIdle /\ ThIdle /\ UpIdle /\ OcIdle /\ SsIdle

SpecSem == InitSem /\ [][SemNext]_vars

InitNet == NetInit /\ CalcIdle /\ CBIdle /\ RepIdle /\ CacheIdle /\ SvcIdle /\ FanIdle /\ RtIdle /\ AdIdle /\ RlIdle /\ SeIdle /\ IdIdle /\ SemIdle /\ ThIdle /\ UpIdle /\ OcIdle /\ SsIdle

SpecNet == InitNet /\ [][NetNext]_vars

InitTh == ThInit /\ CalcIdle /\ CBIdle /\ RepIdle /\ CacheIdle /\ SvcIdle /\ FanIdle /\ RtIdle /\ AdIdle /\ RlIdle /\ SeIdle /\ IdIdle /\ SemIdle /\ NetIdle /\ UpIdle /\ OcIdle /\ SsIdle

SpecTh == InitTh /\ [][ThNext]_vars

\* every session.get ends: with a response, an error, or its timeout
\* (aiohttp.ClientTimeout, line 270), and every sleep ends
SpecREPLive == SpecREP /\ WF_vars(\E r \in Responses : ReqRespond(r))

InitUp == UpInit /\ CalcIdle /\ CBIdle /\ RepIdle /\ CacheIdle /\ SvcIdle /\ FanIdle /\ RtIdle /\ AdIdle /\ RlIdle /\ SeIdle /\ IdIdle /\ SemIdle /\ NetIdle /\ ThIdle /\ OcIdle /\ SsIdle

SpecUp == InitUp /\ [][UpNext]_vars

InitOc == OcInit /\ CalcIdle /\ CBIdle /\ RepIdle /\ CacheIdle /\ SvcIdle /\ FanIdle /\ RtIdle /\ AdIdle /\ RlIdle /\ SeIdle /\ IdIdle /\ SemIdle /\ NetIdle /\ ThIdle /\ UpIdle /\ SsIdle

SpecOc == InitOc /\ [][OcNext]_vars

InitSs == SsInit /\ CalcIdle /\ CBIdle /\ RepIdle /\ CacheIdle /\ SvcIdle /\ FanIdle /\ RtIdle /\ AdIdle /\ RlIdle /\ SeIdle /\ IdIdle /\ SemIdle /\ NetIdle /\ ThIdle /\ UpIdle /\ OcIdle

SpecSs == InitSs /\ [][SsNext]_vars

====
